---- MODULE Spec2Model ----
(***************************************************************************)
(* japikey_js: issuance (createApiKey), verification (shouldAuthenticate,   *)
(* authenticate, createGetJWKS), the key-record store (SqliteDriver /       *)
(* D1Driver) and the Cloudflare routers, as one state machine.              *)
(*                                                                          *)
(* Strings are sequences over an alphabet of atoms: an atom such as "/",    *)
(* "?", "example.com" or "uuid-1" stands for one or more characters that    *)
(* the code never splits. startsWith, slice, split('/') and concatenation   *)
(* are the sequence operations, so a string-prefix test in the code is a    *)
(* sequence-prefix test here.                                               *)
(***************************************************************************)
EXTENDS Integers, Sequences, FiniteSets, TLC

\* cfg:    the deployment's configuration (base issuer URL, audience)
\* now:    the clock, in seconds since the epoch
\* issued: the results of the successful createApiKey calls with their arguments, in order
\* driver: the database driver's lifecycle ("new" until ensureTable())
\* db:     the japikeys table, the stored rows in insertion order
\* last:   the most recent operation, its inputs and its outcome
VARIABLES cfg, now, issued, driver, db, last, calls, drawn

vars == <<cfg, now, issued, driver, db, last, calls, drawn>>

(***************************************************************************)
(* Bounds                                                                   *)
(***************************************************************************)
\* number of API keys issued in one behaviour
MaxKeys == 2
\* the clock (seconds since the epoch) runs from 0 to MaxTime
MaxTime == 1

(***************************************************************************)
(* String helpers (String.prototype.startsWith / endsWith / slice)          *)
(***************************************************************************)
StartsWith(s, p) ==
  Len(p) <= Len(s) /\ SubSeq(s, 1, Len(p)) = p

EndsWith(s, p) ==
  Len(p) <= Len(s) /\ SubSeq(s, Len(s) - Len(p) + 1, Len(s)) = p

\* s.slice(n): drop the first n atoms
Slice(s, n) ==
  SubSeq(s, n + 1, Len(s))

\* index of the first occurrence of atom a in s, Len(s) + 1 when absent
IndexOf(s, a) ==
  IF \E i \in 1..Len(s) : s[i] = a
  THEN CHOOSE i \in 1..Len(s) : s[i] = a /\ \A j \in 1..(i - 1) : s[j] # a
  ELSE Len(s) + 1

(***************************************************************************)
(* Shared constants (packages/shared/src/index.ts)                          *)
(***************************************************************************)
ALG == "RS256"

VER_PREFIX == "japikey-v"

VER_NUM == 1

Digits == {"0", "1", "2", "3", "4", "5", "6", "7", "8", "9"}

DigitVal(d) ==
  CASE d = "0" -> 0 [] d = "1" -> 1 [] d = "2" -> 2 [] d = "3" -> 3
    [] d = "4" -> 4 [] d = "5" -> 5 [] d = "6" -> 6 [] d = "7" -> 7
    [] d = "8" -> 8 [] OTHER -> 9

\* `${VER_PREFIX}${VER_NUM}`
VER == <<VER_PREFIX, "1">>

(***************************************************************************)
(* Error taxonomy: a thrown JapikeyError is a record                        *)
(***************************************************************************)
JapikeyError(name, code, errorType, message) ==
  [name |-> name, code |-> code, errorType |-> errorType, message |-> message]

\* the constructor ignores its message argument and uses a fixed text
MalformedTokenError(message) ==
  JapikeyError("MalformedTokenError", 401, "malformed_token",
               "The token is missing or not in the correct format")

UnauthorizedError(message) ==
  JapikeyError("UnauthorizedError", 403, "unauthorized", message)

UnknownError(message) ==
  JapikeyError("UnknownError", 500, "unknown", message)

SigningError(message) ==
  JapikeyError("SigningError", 500, "signing_error", message)

IncorrectUsageError(message) ==
  JapikeyError("IncorrectUsageError", 500, "incorrect_usage", message)

NotFoundError(message) ==
  JapikeyError("NotFoundError", 404, "not_found", message)

DatabaseError(message) ==
  JapikeyError("DatabaseError", 500, "database_error", message)

InvalidInputError(message) ==
  JapikeyError("InvalidInputError", 400, "invalid_input", message)

\* a native exception that is not a JapikeyError (TypeError, jose errors)
NativeError(message) ==
  JapikeyError("Error", 0, "", message)

\* no exception
NoError ==
  JapikeyError("", 0, "", "")

(***************************************************************************)
(* WHATWG URL objects                                                       *)
(***************************************************************************)
Protocols == {"https:", "http:"}

MakeURL(protocol, userinfo, host, port, pathname, search, hash) ==
  [protocol |-> protocol, userinfo |-> userinfo, host |-> host, port |-> port,
   pathname |-> pathname, search |-> search, hash |-> hash]

\* URL.prototype.toString(): the serialised href
toString(u) ==
  <<u.protocol, "//">>
    \o (IF u.userinfo # "" THEN <<u.userinfo, "@">> ELSE <<>>)
    \o <<u.host>>
    \o (IF u.port # "" THEN <<":", u.port>> ELSE <<>>)
    \o u.pathname \o u.search \o u.hash

NullURL ==
  MakeURL("", "", "", "", <<>>, <<>>, <<>>)

\* new URL(s): ok = FALSE stands for the TypeError of an unparsable string
parseURL(s) ==
  LET hashPos == IndexOf(s, "#")
      beforeHash == SubSeq(s, 1, hashPos - 1)
      hash == SubSeq(s, hashPos, Len(s))
      qPos == IndexOf(beforeHash, "?")
      beforeQ == SubSeq(beforeHash, 1, qPos - 1)
      search == SubSeq(beforeHash, qPos, Len(beforeHash))
      rest == Slice(beforeQ, 2)
      slashPos == IndexOf(rest, "/")
      authority == SubSeq(rest, 1, slashPos - 1)
      pathname == IF slashPos > Len(rest) THEN <<"/">> ELSE Slice(rest, slashPos - 1)
      atPos == IndexOf(authority, "@")
      hasUser == atPos <= Len(authority)
      hostport == IF hasUser THEN Slice(authority, atPos) ELSE authority
      okAuth == /\ (hasUser => atPos = 2)
                /\ Len(hostport) \in {1, 3}
                /\ (Len(hostport) = 3 => hostport[2] = ":")
                /\ \A i \in 1..Len(hostport) : i # 2 => hostport[i] \notin {":", "@", "//"}
      ok == /\ Len(beforeQ) >= 3
            /\ beforeQ[1] \in Protocols
            /\ beforeQ[2] = "//"
            /\ okAuth
  IN  IF ok
      THEN [ok |-> TRUE,
            url |-> MakeURL(beforeQ[1],
                            IF hasUser THEN authority[1] ELSE "",
                            hostport[1],
                            IF Len(hostport) = 3 THEN hostport[3] ELSE "",
                            pathname, search, hash)]
      ELSE [ok |-> FALSE, url |-> NullURL]

(***************************************************************************)
(* packages/shared/src/util.ts                                              *)
(***************************************************************************)
\* percent-encoding of the pathname setter: '?' and '#' cannot end the path
encodePathAtom(a) ==
  IF a = "?" THEN "%3F" ELSE IF a = "#" THEN "%23" ELSE a

\* the segments between the '/' of a string that starts with '/'
RECURSIVE Segments(_)
Segments(s) ==
  IF s = <<>> THEN <<>>
  ELSE LET rest == Tail(s)
           i == IndexOf(rest, "/")
       IN  IF i > Len(rest) THEN <<rest>> ELSE <<SubSeq(rest, 1, i - 1)>> \o Segments(Slice(rest, i - 1))

\* the URL parser's path state: '.' is skipped, '..' removes the segment
\* before it, and either of them at the end leaves an empty last segment
RECURSIVE resolveSegments(_, _)
resolveSegments(segs, acc) ==
  IF segs = <<>> THEN acc
  ELSE LET seg == Head(segs)
           atEnd == Len(segs) = 1
           shortened == IF acc = <<>> THEN acc ELSE SubSeq(acc, 1, Len(acc) - 1)
       IN  IF seg = <<"..">>
           THEN resolveSegments(Tail(segs), IF atEnd THEN Append(shortened, <<>>) ELSE shortened)
           ELSE IF seg = <<".">>
           THEN resolveSegments(Tail(segs), IF atEnd THEN Append(acc, <<>>) ELSE acc)
           ELSE resolveSegments(Tail(segs), Append(acc, [i \in 1..Len(seg) |-> encodePathAtom(seg[i])]))

\* the serialised path: '/' before every segment
RECURSIVE serializePath(_)
serializePath(segs) ==
  IF segs = <<>> THEN <<>> ELSE <<"/">> \o Head(segs) \o serializePath(Tail(segs))

\* result.pathname = value: the value is parsed as a path and serialised again
setPathname(value) ==
  LET rooted == IF StartsWith(value, <<"/">>) THEN value ELSE <<"/">> \o value
      segs == resolveSegments(Segments(rooted), <<>>)
  IN  IF segs = <<>> THEN <<"/">> ELSE serializePath(segs)

appendPathToUrl(base, path) ==
  IF path = <<>>
  THEN base
  ELSE LET normalizedPath == IF StartsWith(path, <<"/">>) THEN Slice(path, 1) ELSE path
       IN  [base EXCEPT
              !.search = <<>>,
              !.hash = <<>>,
              !.pathname = setPathname(IF EndsWith(base.pathname, <<"/">>)
                                       THEN base.pathname \o normalizedPath
                                       ELSE base.pathname \o <<"/">> \o normalizedPath)]

\* a call of appendPathToUrl: the URL it returns, the base argument as the
\* call leaves it, and whether the returned object is the argument itself.
\* Every assignment is made to the copy new URL(base).
appendPathToUrlCall(base, path) ==
  [result |-> appendPathToUrl(base, path), base |-> base, sameObject |-> path = <<>>]

(***************************************************************************)
(* uuid                                                                     *)
(***************************************************************************)
\* the identifiers uuidv7() hands out, in order
KidSeq == <<"uuid-1", "uuid-2", "uuid-3", "uuid-4">>

\* a well-formed UUID that was never issued
ForeignUuid == "uuid-9"

UUIDs == {KidSeq[i] : i \in 1..Len(KidSeq)} \cup {ForeignUuid}

\* validate(s) of the uuid package: the whole string is one UUID
uuidValidate(s) ==
  Len(s) = 1 /\ s[1] \in UUIDs

(***************************************************************************)
(* JSON values and claim maps                                               *)
(***************************************************************************)
Str(s) == [t |-> "string", s |-> s, n |-> 0]

Num(n) == [t |-> "number", s |-> <<>>, n |-> n]

Arr(s) == [t |-> "array", s |-> s, n |-> 0]

Null == [t |-> "null", s |-> <<>>, n |-> 0]

Undefined == [t |-> "undefined", s |-> <<>>, n |-> 0]

NoClaims == [k \in {} |-> Null]

\* claims[k], undefined for an absent property
Get(claims, k) ==
  IF k \in DOMAIN claims THEN claims[k] ELSE Undefined

\* object spread { ...a, ...b }: b wins on a key collision
Spread(a, b) ==
  [k \in (DOMAIN a) \cup (DOMAIN b) |-> IF k \in DOMAIN b THEN b[k] ELSE a[k]]

(***************************************************************************)
(* jose: key pairs, JWKs, compact JWTs                                      *)
(*                                                                          *)
(* A key pair is a number; the public JWK carries it in field n. A token's  *)
(* signature records the key that made it and the header and payload it     *)
(* was made over, so it verifies only under that key for that content.      *)
(***************************************************************************)
\* a key pair that is not one of the issued ones
AttackerKey == Len(KidSeq) + 1

\* the private exponent d of a JWK or key object that holds none
NoPrivate == 0

NoJWK == [kty |-> "", n |-> 0 - 1, d |-> NoPrivate, kid |-> <<>>]

NoHeader == [alg |-> "", kid |-> <<>>]

NoSig == [key |-> 0 - 1, header |-> NoHeader, payload |-> NoClaims]

\* a string that is not a compact JWT (such as 'not-a-jwt' or '')
NoToken == [decodable |-> FALSE, header |-> NoHeader, payload |-> NoClaims, sig |-> NoSig]

\* jose.generateKeyPair(alg): the n-th key pair drawn. Both key objects hold
\* the modulus n; the private one holds the private exponent d as well.
generateKeyPair(n) ==
  [publicKey |-> [type |-> "public", n |-> n, d |-> NoPrivate],
   privateKey |-> [type |-> "private", n |-> n, d |-> n]]

\* new SignJWT(payload).setProtectedHeader(header).sign(key): a signature
\* that the public key of the same pair verifies
Sign(header, payload, key) ==
  [decodable |-> TRUE, header |-> header, payload |-> payload,
   sig |-> [key |-> key.n, header |-> header, payload |-> payload]]

\* jose.exportJWK(key): every parameter the key object holds
exportJWK(key) ==
  [kty |-> "RSA", n |-> key.n, d |-> key.d, kid |-> <<>>]

(***************************************************************************)
(* packages/japikey/src/sign.ts                                             *)
(***************************************************************************)
MakeOptions(sub, iss, aud, expiresAt) ==
  [sub |-> sub, iss |-> iss, aud |-> aud, expiresAt |-> expiresAt]

\* getExpiresAt: expiresAt is Date.getTime(), milliseconds since the epoch
getExpiresAt(expiresAt) ==
  IF expiresAt < 0
  THEN [ok |-> FALSE, error |-> IncorrectUsageError("expiresAt must be in the future"), exp |-> 0]
  ELSE [ok |-> TRUE, error |-> NoError, exp |-> expiresAt \div 1000]

getSub(options) ==
  IF options.sub = <<>>
  THEN [ok |-> FALSE, error |-> IncorrectUsageError("sub must be a non-empty string")]
  ELSE [ok |-> TRUE, error |-> NoError]

\* a variant that leaves the exported JWK without a kid
generateJWK_NoKid(publicKey, kid) ==
  exportJWK(publicKey)

\* generateJWK: export the public key, then jwk.kid = kid
generateJWK(publicKey, kid) ==
  [exportJWK(publicKey) EXCEPT !.kid = kid]

\* signJWT: the protected header, setIssuedAt() and the signature
signJWT(payload, privateKey, alg, kid, clock) ==
  Sign([alg |-> alg, kid |-> kid], Spread(payload, [iat |-> Num(clock)]), privateKey)

\* a variant that spreads the caller's claims last: { ...overrides, ver: VER, ...claims }
signedClaims_CallerWins(claims, sub, iss, aud, exp) ==
  Spread(Spread([sub |-> Str(sub), iss |-> Str(iss), aud |-> Str(aud), exp |-> Num(exp)],
                [ver |-> Str(VER)]),
         claims)

\* the payload handed to signJWT: { ...claims, ...overrides, ver: VER }
signedClaims(claims, sub, iss, aud, exp) ==
  Spread(Spread(claims, [sub |-> Str(sub), iss |-> Str(iss), aud |-> Str(aud), exp |-> Num(exp)]),
         [ver |-> Str(VER)])

CreateFailure(error, generated) ==
  [ok |-> FALSE, error |-> error, jwk |-> NoJWK, jwt |-> NoToken, kid |-> <<>>,
   keyPairGenerated |-> generated]

\* a variant that generates the key pair before it looks at the subject
createApiKey_LateSubCheck(claims, options, n, clock, fault) ==
  LET kid == <<KidSeq[n]>>
      e == getExpiresAt(options.expiresAt)
      iss == toString(appendPathToUrl(options.iss, kid))
      s == getSub(options)
      jwk == generateJWK(generateKeyPair(n).publicKey, kid)
      jwt == signJWT(signedClaims(claims, options.sub, iss, options.aud, e.exp),
                     generateKeyPair(n).privateKey, ALG, kid, clock)
  IN  IF ~e.ok THEN CreateFailure(e.error, FALSE)
      ELSE IF fault = "badIssuer" THEN CreateFailure(UnknownError("Failed to create API key"), FALSE)
      ELSE IF fault = "generateKeyPair" THEN CreateFailure(SigningError("Failed to generate key pair"), FALSE)
      ELSE IF ~s.ok THEN CreateFailure(s.error, TRUE)
      ELSE IF fault = "exportJWK" THEN CreateFailure(SigningError("Failed to generate JWK"), TRUE)
      ELSE IF fault = "SignJWT" THEN CreateFailure(SigningError("Failed to sign JWT"), TRUE)
      ELSE [ok |-> TRUE, error |-> NoError, jwk |-> jwk, jwt |-> jwt, kid |-> kid,
            keyPairGenerated |-> TRUE]

\* a variant whose catch block rethrows every exception as it is
createApiKey_NoWrap(claims, options, n, clock, fault) ==
  LET kid == <<KidSeq[n]>>
      e == getExpiresAt(options.expiresAt)
      iss == toString(appendPathToUrl(options.iss, kid))
      s == getSub(options)
      jwk == generateJWK(generateKeyPair(n).publicKey, kid)
      jwt == signJWT(signedClaims(claims, options.sub, iss, options.aud, e.exp),
                     generateKeyPair(n).privateKey, ALG, kid, clock)
  IN  IF ~e.ok THEN CreateFailure(e.error, FALSE)
      ELSE IF fault = "badIssuer" THEN CreateFailure(NativeError("Invalid URL"), FALSE)
      ELSE IF ~s.ok THEN CreateFailure(s.error, FALSE)
      ELSE IF fault = "generateKeyPair" THEN CreateFailure(SigningError("Failed to generate key pair"), FALSE)
      ELSE IF fault = "exportJWK" THEN CreateFailure(SigningError("Failed to generate JWK"), TRUE)
      ELSE IF fault = "SignJWT" THEN CreateFailure(SigningError("Failed to sign JWT"), TRUE)
      ELSE [ok |-> TRUE, error |-> NoError, jwk |-> jwk, jwt |-> jwt, kid |-> kid,
            keyPairGenerated |-> TRUE]

\* createApiKey(claims, options). n numbers the call: uuidv7() returns
\* KidSeq[n] and generateKeyPair returns key pair n. fault names the library
\* call that throws in this run ("none": nothing throws).
\* a variant that exports the private key of the pair
createApiKey_ExportsPrivateKey(claims, options, n, clock, fault) ==
  LET kid == <<KidSeq[n]>>
      e == getExpiresAt(options.expiresAt)
      iss == toString(appendPathToUrl(options.iss, kid))
      s == getSub(options)
      jwk == generateJWK(generateKeyPair(n).privateKey, kid)
      jwt == signJWT(signedClaims(claims, options.sub, iss, options.aud, e.exp),
                     generateKeyPair(n).privateKey, ALG, kid, clock)
  IN  IF ~e.ok THEN CreateFailure(e.error, FALSE)
      ELSE IF fault = "badIssuer" THEN CreateFailure(UnknownError("Failed to create API key"), FALSE)
      ELSE IF ~s.ok THEN CreateFailure(s.error, FALSE)
      ELSE IF fault = "generateKeyPair" THEN CreateFailure(SigningError("Failed to generate key pair"), FALSE)
      ELSE IF fault = "exportJWK" THEN CreateFailure(SigningError("Failed to generate JWK"), TRUE)
      ELSE IF fault = "SignJWT" THEN CreateFailure(SigningError("Failed to sign JWT"), TRUE)
      ELSE [ok |-> TRUE, error |-> NoError, jwk |-> jwk, jwt |-> jwt, kid |-> kid,
            keyPairGenerated |-> TRUE]

createApiKey(claims, options, n, clock, fault) ==
  LET kid == <<KidSeq[n]>>
      e == getExpiresAt(options.expiresAt)
      iss == toString(appendPathToUrl(options.iss, kid))
      s == getSub(options)
      jwk == generateJWK(generateKeyPair(n).publicKey, kid)
      jwt == signJWT(signedClaims(claims, options.sub, iss, options.aud, e.exp),
                     generateKeyPair(n).privateKey, ALG, kid, clock)
  IN  IF ~e.ok THEN CreateFailure(e.error, FALSE)
      ELSE IF fault = "badIssuer" THEN CreateFailure(UnknownError("Failed to create API key"), FALSE)
      ELSE IF ~s.ok THEN CreateFailure(s.error, FALSE)
      ELSE IF fault = "generateKeyPair" THEN CreateFailure(SigningError("Failed to generate key pair"), FALSE)
      ELSE IF fault = "exportJWK" THEN CreateFailure(SigningError("Failed to generate JWK"), TRUE)
      ELSE IF fault = "SignJWT" THEN CreateFailure(SigningError("Failed to sign JWT"), TRUE)
      ELSE [ok |-> TRUE, error |-> NoError, jwk |-> jwk, jwt |-> jwt, kid |-> kid,
            keyPairGenerated |-> TRUE]

(***************************************************************************)
(* The key-record store: SqliteDriver (packages/sqlite) and D1Driver        *)
(* (packages/cloudflare/src/d1.ts) run the same four statements.            *)
(* The table is the sequence of its stored rows in insertion order.         *)
(***************************************************************************)
\* JSON.stringify of a JWK
stringifyJWK(jwk) == [json |-> jwk]

\* JSON.stringify of a metadata object: undefined-valued properties are dropped
stringifyObject(obj) ==
  [json |-> [k \in {x \in DOMAIN obj : obj[x].t # "undefined"} |-> obj[k]]]

\* JSON.parse
parseJSON(text) == text.json

ApiKeyRow(kid, user_id, revoked, jwk, metadata) ==
  [kid |-> kid, user_id |-> user_id, revoked |-> revoked, jwk |-> jwk, metadata |-> metadata]

NoRow == ApiKeyRow(<<>>, <<>>, FALSE, NoJWK, NoClaims)

toSqlite(apiKey) ==
  [kid |-> apiKey.kid,
   user_id |-> apiKey.user_id,
   revoked |-> IF apiKey.revoked THEN 1 ELSE 0,
   jwk |-> stringifyJWK(apiKey.jwk),
   metadata |-> stringifyObject(apiKey.metadata)]

fromSqlite(result) ==
  ApiKeyRow(result.kid, result.user_id, result.revoked = 1,
            parseJSON(result.jwk), parseJSON(result.metadata))

\* the driver's lifecycle: "new" (open, no statements), "ready" (open,
\* statements prepared), "closed" (closed after ensureTable) and
\* "closed-new" (closed before ensureTable)
isOpen(drv) == drv \in {"new", "ready"}

hasQueries(drv) == drv \in {"ready", "closed"}

\* a variant that hands out a statement whether or not one was prepared
getQuery_Unchecked(drv) ==
  [ok |-> TRUE, error |-> NoError]

\* getQuery: the prepared statements exist only after ensureTable()
getQuery(drv) ==
  IF ~hasQueries(drv)
  THEN [ok |-> FALSE, error |-> IncorrectUsageError("Database not initialized. Call ensureTable() first.")]
  ELSE [ok |-> TRUE, error |-> NoError]

\* a variant that runs INSERT OR REPLACE: a stored row of the kid is overwritten
insertStatement_Replace(table, params) ==
  IF \E i \in 1..Len(table) : table[i].kid = params.kid
  THEN [ok |-> TRUE,
        table |-> [i \in 1..Len(table) |->
                     IF table[i].kid = params.kid THEN params ELSE table[i]]]
  ELSE [ok |-> TRUE, table |-> Append(table, params)]

\* a variant that skips a conflicting row without failing (INSERT OR IGNORE)
insertStatement_OrIgnore(table, params) ==
  IF \E i \in 1..Len(table) : table[i].kid = params.kid
  THEN [ok |-> TRUE, table |-> table]
  ELSE [ok |-> TRUE, table |-> Append(table, params)]

\* INSERT INTO t (kid, ...) VALUES (...): kid is the PRIMARY KEY
insertStatement(table, params) ==
  IF \E i \in 1..Len(table) : table[i].kid = params.kid
  THEN [ok |-> FALSE, table |-> table]
  ELSE [ok |-> TRUE, table |-> Append(table, params)]

\* SELECT * FROM t WHERE kid = :kid
getStatement(table, kid) ==
  SelectSeq(table, LAMBDA r : r.kid = kid)

\* SELECT * FROM t WHERE user_id = :user_id LIMIT :limit OFFSET :offset
findStatement(table, user_id, limit, offset) ==
  LET rows == SelectSeq(table, LAMBDA r : r.user_id = user_id)
      skipped == IF offset >= Len(rows) THEN <<>> ELSE Slice(rows, offset)
  IN  IF limit < 0 \/ limit >= Len(skipped) THEN skipped ELSE SubSeq(skipped, 1, limit)

\* UPDATE t SET revoked = 1 WHERE user_id = :user_id AND kid = :kid
revokeStatement(table, filter) ==
  [i \in 1..Len(table) |->
     IF table[i].user_id = filter.user_id /\ table[i].kid = filter.kid
     THEN [table[i] EXCEPT !.revoked = 1]
     ELSE table[i]]

\* insertApiKey(apiKey): the outcome and the table afterwards
insertApiKey(drv, table, apiKey) ==
  LET q == getQuery(drv)
      r == insertStatement(table, toSqlite(apiKey))
  IN  IF ~q.ok THEN [ok |-> FALSE, error |-> q.error, table |-> table]
      ELSE IF ~isOpen(drv) \/ ~r.ok
      THEN [ok |-> FALSE, error |-> DatabaseError("Failed to insert api key"), table |-> table]
      ELSE [ok |-> TRUE, error |-> NoError, table |-> r.table]

\* getApiKey(kid): found = FALSE is the null result
getApiKey(drv, table, kid) ==
  LET q == getQuery(drv)
      result == getStatement(table, kid)
  IN  IF ~q.ok THEN [ok |-> FALSE, error |-> q.error, found |-> FALSE, row |-> NoRow]
      ELSE IF ~isOpen(drv)
      THEN [ok |-> FALSE, error |-> DatabaseError("Failed to query for the api key"),
            found |-> FALSE, row |-> NoRow]
      ELSE IF result = <<>> THEN [ok |-> TRUE, error |-> NoError, found |-> FALSE, row |-> NoRow]
      ELSE [ok |-> TRUE, error |-> NoError, found |-> TRUE, row |-> fromSqlite(result[1])]

\* findApiKeys(user_id, limit, offset): limit ?? -1, offset ?? 0 are the caller's defaults
findApiKeys(drv, table, user_id, limit, offset) ==
  LET q == getQuery(drv)
      rows == findStatement(table, user_id, limit, offset)
  IN  IF ~q.ok THEN [ok |-> FALSE, error |-> q.error, rows |-> <<>>]
      ELSE IF ~isOpen(drv)
      THEN [ok |-> FALSE, error |-> DatabaseError("Failed to query for the api keys"),
            rows |-> <<>>]
      ELSE [ok |-> TRUE, error |-> NoError, rows |-> [i \in 1..Len(rows) |-> fromSqlite(rows[i])]]

revokeApiKey(drv, table, filter) ==
  LET q == getQuery(drv)
  IN  IF ~q.ok THEN [ok |-> FALSE, error |-> q.error, table |-> table]
      ELSE IF ~isOpen(drv)
      THEN [ok |-> FALSE, error |-> DatabaseError("Failed to revoke the api key"),
            table |-> table]
      ELSE [ok |-> TRUE, error |-> NoError, table |-> revokeStatement(table, filter)]

\* ensureTable(): CREATE TABLE IF NOT EXISTS, then prepareStatements()
ensureTable(drv) ==
  IF ~isOpen(drv)
  THEN [ok |-> FALSE, error |-> DatabaseError("Failed to create the table"), driver |-> drv]
  ELSE [ok |-> TRUE, error |-> NoError, driver |-> "ready"]

\* SqliteDriver.close()
close(drv) ==
  IF ~isOpen(drv)
  THEN [ok |-> FALSE, error |-> DatabaseError("Failed to close the database"), driver |-> drv]
  ELSE [ok |-> TRUE, error |-> NoError,
        driver |-> IF hasQueries(drv) THEN "closed" ELSE "closed-new"]

(***************************************************************************)
(* packages/cloudflare/src/router.ts                                        *)
(***************************************************************************)
\* a Response: status and the fields of its JSON body
Response(status, error, keys, api_key, kid, rows) ==
  [status |-> status, errorType |-> error.errorType, message |-> error.message,
   keys |-> keys, api_key |-> api_key, kid |-> kid, rows |-> rows]

\* wrapError: a JapikeyError becomes a response with the error's code
errorResponse(err) ==
  Response(err.code, err, <<>>, NoToken, <<>>, <<>>)

\* String.prototype.split('/')
RECURSIVE Split(_)
Split(s) ==
  LET i == IndexOf(s, "/")
  IN  IF i > Len(s) THEN <<s>> ELSE <<SubSeq(s, 1, i - 1)>> \o Split(Slice(s, i))

\* getWellKnownKid(request, baseIssuer): ok = FALSE is NotFoundError('Invalid JWKS request')
getWellKnownKid(url, baseIssuer) ==
  LET base == toString(baseIssuer)
      sliced == Slice(url, Len(base))
      partialPath == IF StartsWith(sliced, <<"/">>) THEN sliced ELSE <<"/">> \o sliced
      parts == Split(partialPath)
  IN  IF ~StartsWith(url, base) THEN [ok |-> FALSE, kid |-> <<>>]
      ELSE IF \/ Len(parts) # 4
              \/ parts[1] # <<>>
              \/ parts[3] # <<".well-known">>
              \/ parts[4] # <<"jwks.json">>
           THEN [ok |-> FALSE, kid |-> <<>>]
      ELSE IF parts[2] = <<>> \/ ~uuidValidate(parts[2]) THEN [ok |-> FALSE, kid |-> <<>>]
      ELSE [ok |-> TRUE, kid |-> parts[2]]

\* isJWKSPath(request, baseIssuer): whether the call throws, and its value;
\* every exception of getWellKnownKid is caught and becomes false
isJWKSPath(url, baseIssuer) ==
  [threw |-> FALSE, value |-> getWellKnownKid(url, baseIssuer).ok]

\* a variant that does not look at the revoked flag
handleJWKSRequest_ServesRevoked(kid, drv, table) ==
  LET r == getApiKey(drv, table, kid)
  IN  IF ~r.ok THEN errorResponse(r.error)
      ELSE IF ~r.found THEN errorResponse(NotFoundError("API key not found"))
      ELSE Response(200, NoError, <<r.row.jwk>>, NoToken, <<>>, <<>>)

\* handleJWKSRequest(kid, options)
handleJWKSRequest(kid, drv, table) ==
  LET r == getApiKey(drv, table, kid)
  IN  IF ~r.ok THEN errorResponse(r.error)
      ELSE IF ~r.found \/ r.row.revoked THEN errorResponse(NotFoundError("API key not found"))
      ELSE Response(200, NoError, <<r.row.jwk>>, NoToken, <<>>, <<>>)

\* createJWKSRouter(options).fetch(request)
jwksRouterFetch(url, baseIssuer, drv, table) ==
  LET k == getWellKnownKid(url, baseIssuer)
  IN  IF ~k.ok THEN errorResponse(NotFoundError("Invalid JWKS request"))
      ELSE handleJWKSRequest(k.kid, drv, table)

(***************************************************************************)
(* packages/authenticate/src/index.ts: the structural checks                *)
(***************************************************************************)
\* a variant that compares with the base issuer's string as it stands
validateIssuer_BarePrefix(iss, baseIssuer) ==
  LET prefix == toString(baseIssuer)
      issuerKid == Slice(iss.s, Len(prefix))
  IN  IF iss.t # "string" \/ iss.s = <<>>
      THEN [ok |-> FALSE, error |-> MalformedTokenError("Missing issuer in token"),
            issuerKid |-> <<>>, iss |-> <<>>]
      ELSE IF ~StartsWith(iss.s, prefix)
      THEN [ok |-> FALSE, error |-> MalformedTokenError("Invalid issuer"),
            issuerKid |-> <<>>, iss |-> <<>>]
      ELSE IF ~uuidValidate(issuerKid)
      THEN [ok |-> FALSE, error |-> MalformedTokenError("Invalid issuer"),
            issuerKid |-> <<>>, iss |-> <<>>]
      ELSE [ok |-> TRUE, error |-> NoError, issuerKid |-> issuerKid, iss |-> iss.s]

validateIssuer(iss, baseIssuer) ==
  LET base == toString(baseIssuer)
      prefix == IF EndsWith(base, <<"/">>) THEN base ELSE base \o <<"/">>
      issuerKid == Slice(iss.s, Len(prefix))
  IN  IF iss.t # "string" \/ iss.s = <<>>
      THEN [ok |-> FALSE, error |-> MalformedTokenError("Missing issuer in token"),
            issuerKid |-> <<>>, iss |-> <<>>]
      ELSE IF ~StartsWith(iss.s, prefix)
      THEN [ok |-> FALSE, error |-> MalformedTokenError("Invalid issuer"),
            issuerKid |-> <<>>, iss |-> <<>>]
      ELSE IF ~uuidValidate(issuerKid)
      THEN [ok |-> FALSE, error |-> MalformedTokenError("Invalid issuer"),
            issuerKid |-> <<>>, iss |-> <<>>]
      ELSE [ok |-> TRUE, error |-> NoError, issuerKid |-> issuerKid, iss |-> iss.s]

validateKid(issuerKid, protectedHeader) ==
  IF protectedHeader.kid # issuerKid
  THEN [ok |-> FALSE, error |-> MalformedTokenError("Mismatched kid compared to issuer")]
  ELSE [ok |-> TRUE, error |-> NoError]

\* parseInt(match[1], 10) of one to three decimal digits
parseDigits(ds) ==
  IF Len(ds) = 1 THEN DigitVal(ds[1])
  ELSE IF Len(ds) = 2 THEN 10 * DigitVal(ds[1]) + DigitVal(ds[2])
  ELSE 100 * DigitVal(ds[1]) + 10 * DigitVal(ds[2]) + DigitVal(ds[3])

\* ver.match(/^japikey-v(\d{1,3})$/)
versionMatches(ver) ==
  /\ Len(ver) \in 2..4
  /\ ver[1] = VER_PREFIX
  /\ \A i \in 2..Len(ver) : ver[i] \in Digits

\* a variant without the comparison with VER_NUM
validateVersion_NoUpperBound(unverified) ==
  LET ver == Get(unverified, "ver")
  IN  IF ver.t # "string"
      THEN [ok |-> FALSE, error |-> MalformedTokenError("Invalid version"), parsed |-> 0]
      ELSE IF ~versionMatches(ver.s)
      THEN [ok |-> FALSE, error |-> MalformedTokenError("Invalid version"), parsed |-> 0]
      ELSE [ok |-> TRUE, error |-> NoError, parsed |-> parseDigits(Tail(ver.s))]

validateVersion(unverified) ==
  LET ver == Get(unverified, "ver")
  IN  IF ver.t # "string"
      THEN [ok |-> FALSE, error |-> MalformedTokenError("Invalid version"), parsed |-> 0]
      ELSE IF ~versionMatches(ver.s)
      THEN [ok |-> FALSE, error |-> MalformedTokenError("Invalid version"), parsed |-> 0]
      ELSE IF parseDigits(Tail(ver.s)) > VER_NUM
      THEN [ok |-> FALSE, error |-> MalformedTokenError("Invalid version"), parsed |-> 0]
      ELSE [ok |-> TRUE, error |-> NoError, parsed |-> parseDigits(Tail(ver.s))]

\* shouldAuthenticate(token, baseIssuer): every failure is caught and becomes false
shouldAuthenticate(token, baseIssuer) ==
  LET i == validateIssuer(Get(token.payload, "iss"), baseIssuer)
  IN  /\ token.decodable
      /\ i.ok
      /\ validateKid(i.issuerKid, token.header).ok
      /\ validateVersion(token.payload).ok

\* a variant that decodes the token before its try block
shouldAuthenticateCall_DecodeOutsideTry(token, baseIssuer) ==
  [threw |-> ~token.decodable, value |-> shouldAuthenticate(token, baseIssuer)]

\* a call of shouldAuthenticate: whether the promise rejects, and the value
\* it resolves to. The whole body is inside try { } catch { return false }.
shouldAuthenticateCall(token, baseIssuer) ==
  [threw |-> FALSE, value |-> shouldAuthenticate(token, baseIssuer)]

(***************************************************************************)
(* The resolver seam (GetJWKS) and jose.jwtVerify                           *)
(***************************************************************************)
\* a GetJWKS value: "remote" is createGetJWKS(base), "local" returns an
\* accessor that yields jwk, "throws" raises a native Error when called
MakeGetJWKS(kind, base, jwk) ==
  [kind |-> kind, base |-> base, jwk |-> jwk]

\* the deployment a remote fetch reaches: the JWKS router and its store
MakeEnv(baseIssuer, drv, table) ==
  [baseIssuer |-> baseIssuer, driver |-> drv, table |-> table]

\* the path createGetJWKS appends to the issuer
JWKS_PATH == <<".well_known", "/", "jwks.json">>

\* createGetJWKS(baseIssuer)(data): ok = FALSE is the MalformedTokenError of
\* the allow-list check; url is the URL handed to createRemoteJWKSet
createGetJWKS(baseIssuer, data) ==
  LET v == validateIssuer(Str(toString(data.iss)), baseIssuer)
  IN  IF ~v.ok THEN [ok |-> FALSE, error |-> v.error, url |-> NullURL]
      ELSE [ok |-> TRUE, error |-> NoError, url |-> appendPathToUrl(data.iss, JWKS_PATH)]

\* options.getJWKS({ kid, iss }): the accessor it returns, or its exception
callGetJWKS(getJWKS, data) ==
  IF getJWKS.kind = "remote"
  THEN LET r == createGetJWKS(getJWKS.base, data)
       IN  [ok |-> r.ok, error |-> r.error, kind |-> "remote", url |-> r.url, jwk |-> NoJWK]
  ELSE IF getJWKS.kind = "local"
  THEN [ok |-> TRUE, error |-> NoError, kind |-> "local", url |-> NullURL, jwk |-> getJWKS.jwk]
  ELSE [ok |-> FALSE, error |-> NativeError("resolver failed"), kind |-> "throws",
        url |-> NullURL, jwk |-> NoJWK]

\* the key accessor, invoked by jwtVerify with the protected header: a remote
\* set fetches its URL and picks the key whose kid is the header's
getKey(accessor, protectedHeader, env) ==
  IF accessor.kind = "local"
  THEN [ok |-> TRUE, jwk |-> accessor.jwk, fetched |-> <<>>, cause |-> ""]
  ELSE LET pick(url, status, matching) ==
             IF status # 200
             THEN [ok |-> FALSE, jwk |-> NoJWK, fetched |-> url, cause |-> "JOSEError"]
             ELSE IF Len(matching) = 0
             THEN [ok |-> FALSE, jwk |-> NoJWK, fetched |-> url, cause |-> "JWKSNoMatchingKey"]
             ELSE IF Len(matching) > 1
             THEN [ok |-> FALSE, jwk |-> NoJWK, fetched |-> url,
                   cause |-> "JWKSMultipleMatchingKeys"]
             ELSE [ok |-> TRUE, jwk |-> matching[1], fetched |-> url, cause |-> ""]
           select(url, response) ==
             pick(url, response.status,
                  SelectSeq(response.keys,
                            LAMBDA j : j.kty = "RSA" /\ j.kid = protectedHeader.kid))
           fetch(url) ==
             select(url, jwksRouterFetch(url, env.baseIssuer, env.driver, env.table))
       IN  fetch(toString(accessor.url))

MakeVerifyOptions(audience, algorithms) ==
  [audience |-> audience, algorithms |-> algorithms]

\* no verifyOptions: no audience check
NoVerifyOptions == MakeVerifyOptions(<<>>, {})

\* the signature of token verifies under jwk
signatureValid(token, jwk) ==
  /\ token.sig.key = jwk.n
  /\ token.sig.header = token.header
  /\ token.sig.payload = token.payload

\* validation of the registered claims by jwtVerify at time clock
claimsValid(payload, verifyOptions, clock) ==
  /\ verifyOptions.audience # <<>> => Get(payload, "aud") = Str(verifyOptions.audience)
  /\ "exp" \in DOMAIN payload => payload["exp"].t = "number" /\ payload["exp"].n > clock
  /\ "nbf" \in DOMAIN payload => payload["nbf"].t = "number" /\ payload["nbf"].n <= clock

\* the jose error that the first failing registered claim raises
claimsFailure(payload, verifyOptions, clock) ==
  IF verifyOptions.audience # <<>> /\ Get(payload, "aud") # Str(verifyOptions.audience)
  THEN "JWTClaimValidationFailed"
  ELSE IF "nbf" \in DOMAIN payload /\ ~(payload["nbf"].t = "number" /\ payload["nbf"].n <= clock)
  THEN "JWTClaimValidationFailed"
  ELSE IF "exp" \in DOMAIN payload /\ payload["exp"].t # "number"
  THEN "JWTClaimValidationFailed"
  ELSE IF "exp" \in DOMAIN payload /\ payload["exp"].n <= clock
  THEN "JWTExpired"
  ELSE ""

\* jose.jwtVerify(token, accessor, options): the algorithm is checked before
\* the key is asked for, the signature before the claims; cause is the name
\* of the jose error it rejects with
jwtVerify(token, accessor, verifyOptions, clock, env) ==
  LET verify(k) ==
        IF ~k.ok THEN [ok |-> FALSE, fetched |-> k.fetched, cause |-> k.cause]
        ELSE IF ~signatureValid(token, k.jwk)
        THEN [ok |-> FALSE, fetched |-> k.fetched, cause |-> "JWSSignatureVerificationFailed"]
        ELSE [ok |-> claimsValid(token.payload, verifyOptions, clock),
              fetched |-> k.fetched,
              cause |-> claimsFailure(token.payload, verifyOptions, clock)]
  IN  IF token.header.alg \notin verifyOptions.algorithms
      THEN [ok |-> FALSE, fetched |-> <<>>, cause |-> "JOSEAlgNotAllowed"]
      ELSE verify(getKey(accessor, token.header, env))

(***************************************************************************)
(* packages/authenticate/src/index.ts: authenticate                         *)
(***************************************************************************)
MakeAuthenticateOptions(baseIssuer, getJWKS, verifyOptions) ==
  [baseIssuer |-> baseIssuer, getJWKS |-> getJWKS, verifyOptions |-> verifyOptions]

AuthResult(ok, error, payload, resolverCalled, verifyCalled, fetched) ==
  [ok |-> ok, error |-> error, payload |-> payload, resolverCalled |-> resolverCalled,
   verifyCalled |-> verifyCalled, fetched |-> fetched, cause |-> ""]

\* the thrown error carries { cause: err }: the name of the error caught
WithCause(result, cause) == [result EXCEPT !.cause = cause]

\* a variant whose catch block rethrows the resolver's typed errors
verifyBlock_RethrowsTyped(token, options, kid, iss, clock, env) ==
  LET u == parseURL(iss)
      accessor == callGetJWKS(options.getJWKS, [kid |-> kid, iss |-> u.url])
      merged == [options.verifyOptions EXCEPT !.algorithms = {ALG}]
      v == jwtVerify(token, accessor, merged, clock, env)
      failed == UnauthorizedError("Failed to verify token")
  IN  IF ~u.ok THEN AuthResult(FALSE, failed, NoClaims, FALSE, FALSE, <<>>)
      ELSE IF ~accessor.ok
      THEN AuthResult(FALSE, IF accessor.error.name = "Error" THEN failed ELSE accessor.error,
                      NoClaims, TRUE, FALSE, <<>>)
      ELSE IF ~v.ok THEN AuthResult(FALSE, failed, NoClaims, TRUE, TRUE, v.fetched)
      ELSE AuthResult(TRUE, NoError, token.payload, TRUE, TRUE, v.fetched)

\* a variant that spreads the caller's verifyOptions over the algorithms
verifyBlock_CallerAlgorithms(token, options, kid, iss, clock, env) ==
  LET u == parseURL(iss)
      accessor == callGetJWKS(options.getJWKS, [kid |-> kid, iss |-> u.url])
      merged == IF options.verifyOptions.algorithms = {}
                THEN [options.verifyOptions EXCEPT !.algorithms = {ALG}]
                ELSE options.verifyOptions
      v == jwtVerify(token, accessor, merged, clock, env)
      failed == UnauthorizedError("Failed to verify token")
  IN  IF ~u.ok THEN AuthResult(FALSE, failed, NoClaims, FALSE, FALSE, <<>>)
      ELSE IF ~accessor.ok THEN AuthResult(FALSE, failed, NoClaims, TRUE, FALSE, <<>>)
      ELSE IF ~v.ok THEN AuthResult(FALSE, failed, NoClaims, TRUE, TRUE, v.fetched)
      ELSE AuthResult(TRUE, NoError, token.payload, TRUE, TRUE, v.fetched)

\* the try block of authenticate: new URL(iss), options.getJWKS, jose.jwtVerify
verifyBlock(token, options, kid, iss, clock, env) ==
  LET merged == [options.verifyOptions EXCEPT !.algorithms = {ALG}]
      failed == UnauthorizedError("Failed to verify token")
      settle(v) ==
        IF ~v.ok
        THEN WithCause(AuthResult(FALSE, failed, NoClaims, TRUE, TRUE, v.fetched), v.cause)
        ELSE AuthResult(TRUE, NoError, token.payload, TRUE, TRUE, v.fetched)
      verify(accessor) ==
        IF ~accessor.ok
        THEN WithCause(AuthResult(FALSE, failed, NoClaims, TRUE, FALSE, <<>>),
                       accessor.error.name)
        ELSE settle(jwtVerify(token, accessor, merged, clock, env))
      resolve(u) ==
        IF ~u.ok
        THEN WithCause(AuthResult(FALSE, failed, NoClaims, FALSE, FALSE, <<>>), "TypeError")
        ELSE verify(callGetJWKS(options.getJWKS, [kid |-> kid, iss |-> u.url]))
  IN  resolve(parseURL(iss))

\* a variant that does not compare the header kid with the issuer's key id
authenticate_NoKidCheck(token, options, clock, env) ==
  LET v == validateVersion(token.payload)
      i == validateIssuer(Get(token.payload, "iss"), options.baseIssuer)
  IN  IF ~token.decodable
      THEN WithCause(AuthResult(FALSE, MalformedTokenError("Invalid token"), NoClaims,
                                FALSE, FALSE, <<>>), "JWTInvalid")
      ELSE IF ~v.ok THEN AuthResult(FALSE, v.error, NoClaims, FALSE, FALSE, <<>>)
      ELSE IF ~i.ok THEN AuthResult(FALSE, i.error, NoClaims, FALSE, FALSE, <<>>)
      ELSE verifyBlock(token, options, i.issuerKid, i.iss, clock, env)

\* authenticate(token, options)
authenticate(token, options, clock, env) ==
  LET v == validateVersion(token.payload)
      i == validateIssuer(Get(token.payload, "iss"), options.baseIssuer)
      k == validateKid(i.issuerKid, token.header)
  IN  IF ~token.decodable
      THEN WithCause(AuthResult(FALSE, MalformedTokenError("Invalid token"), NoClaims,
                                FALSE, FALSE, <<>>), "JWTInvalid")
      ELSE IF ~v.ok THEN AuthResult(FALSE, v.error, NoClaims, FALSE, FALSE, <<>>)
      ELSE IF ~i.ok THEN AuthResult(FALSE, i.error, NoClaims, FALSE, FALSE, <<>>)
      ELSE IF ~k.ok THEN AuthResult(FALSE, k.error, NoClaims, FALSE, FALSE, <<>>)
      ELSE verifyBlock(token, options, i.issuerKid, i.iss, clock, env)

(***************************************************************************)
(* packages/express/src/index.ts: authenticateApiKey and errorHandler       *)
(***************************************************************************)
\* what the middleware did: called next (with or without a user), or sent
\* a response; an absent body member is the empty string
HttpResult(sent, status, type, message, stack, causeStack) ==
  [sent |-> sent, status |-> status, type |-> type, message |-> message,
   stack |-> stack, causeStack |-> causeStack]

NoHttp == HttpResult(FALSE, 0, "", "", <<>>, <<>>)

\* errorHandler(err, req, res, next), err being error thrown with { cause };
\* isProduction is process.env.NODE_ENV === 'production'. A stack is
\* modelled by its first line, the error's name and message.
errorHandler(error, cause, isProduction) ==
  IF error.code = 0
  THEN NoHttp
  ELSE HttpResult(TRUE, error.code, error.errorType, error.message,
                  IF isProduction THEN <<>> ELSE <<error.name, ": ", error.message>>,
                  IF isProduction \/ cause = "" THEN <<>> ELSE <<cause>>)

\* request.user before the middleware has set it
NoUser == [type |-> "", claims |-> NoClaims, id |-> Undefined]

\* the handler of authenticateApiKey; scheme is what the Authorization header
\* starts with ("none" when it is absent) and token what follows 'bearer '.
\* nextCalls counts the calls of next() without an error, user is
\* request.user afterwards. The promise shouldAuthenticate returns is tested
\* without await, and an object is truthy, so authenticate is called for
\* every bearer token
authenticateApiKey(scheme, token, options, isProduction, clock, env) ==
  LET settle(auth) ==
        IF auth.ok
        THEN [auth |-> auth, http |-> NoHttp, nextCalls |-> 1,
              user |-> [type |-> "api_key", claims |-> auth.payload,
                        id |-> Get(auth.payload, "sub")]]
        ELSE [auth |-> auth, http |-> errorHandler(auth.error, auth.cause, isProduction),
              nextCalls |-> 0, user |-> NoUser]
  IN  IF scheme # "bearer"
      THEN [auth |-> AuthResult(FALSE, NoError, NoClaims, FALSE, FALSE, <<>>),
            http |-> NoHttp, nextCalls |-> 1, user |-> NoUser]
      ELSE settle(authenticate(token, options, clock, env))

(***************************************************************************)
(* packages/cloudflare/src/router.ts: the API-key routes                    *)
(***************************************************************************)
\* a request: user is the user getUserId resolves to, and userError, when it
\* is not NoError, the exception getUserId rejects with; data and dataError
\* are the same for parseCreateApiKeyRequest
MakeRequest(method, path, user, data) ==
  [method |-> method, path |-> path, user |-> user, data |-> data,
   userError |-> NoError, dataError |-> NoError]

\* the result of parseCreateApiKeyRequest
MakeCreateData(expiresAt, claims, databaseMetadata) ==
  [expiresAt |-> expiresAt, claims |-> claims, databaseMetadata |-> databaseMetadata]

NoData == MakeCreateData(0, NoClaims, NoClaims)

\* options.getUserId(request, env), supplied by the deployment
getUserId(request) ==
  [ok |-> request.userError = NoError, error |-> request.userError, userId |-> request.user]

\* options.parseCreateApiKeyRequest(request, env), supplied by the deployment
parseCreateApiKeyRequest(request) ==
  [ok |-> request.dataError = NoError, error |-> request.dataError, data |-> request.data]

\* matchPath(request, method, routePrefix, pattern): path is the request's
\* pathname after the route prefix; '/:id' matches exactly one segment
matchPath(request, method, pattern) ==
  /\ request.method = method
  /\ CASE pattern = "" -> request.path = <<>>
       [] pattern = "/my" -> request.path = <<"/", "my">>
       [] OTHER -> Len(request.path) = 2 /\ request.path[1] = "/" /\ request.path[2] # "/"

\* ensureKid(params): ok = FALSE is NotFoundError('Invalid API key ID')
ensureKid(request) ==
  LET kid == Slice(request.path, 1)
  IN  IF ~uuidValidate(kid) THEN [ok |-> FALSE, kid |-> <<>>] ELSE [ok |-> TRUE, kid |-> kid]

\* what a handler leaves behind: the response it returned, or the exception
\* it threw (thrown); the table; what createApiKey produced; and whether
\* getUserId was called (asked)
RouteResult(response, table, created) ==
  [response |-> response, table |-> table, created |-> created,
   thrown |-> NoError, asked |-> FALSE]

NotCreated == CreateFailure(NoError, FALSE)

\* throw err
Raise(err, table, created) ==
  [response |-> Response(0, NoError, <<>>, NoToken, <<>>, <<>>), table |-> table,
   created |-> created, thrown |-> err, asked |-> FALSE]

\* the handler called options.getUserId
Asked(result) == [result EXCEPT !.asked = TRUE]

\* err instanceof JapikeyError
IsJapikeyError(err) ==
  err.name \in {"JapikeyError", "MalformedTokenError", "UnauthorizedError", "UnknownError",
                "SigningError", "IncorrectUsageError", "NotFoundError", "DatabaseError",
                "InvalidInputError"}

\* a variant that answers every exception, whatever its class
wrapError_ConvertsEverything(result) ==
  IF result.thrown # NoError
  THEN [result EXCEPT !.response = errorResponse(result.thrown), !.thrown = NoError]
  ELSE result

\* wrapError(fn): a JapikeyError the handler threw becomes the response;
\* anything else is thrown again
wrapError(result) ==
  IF result.thrown # NoError /\ IsJapikeyError(result.thrown)
  THEN [result EXCEPT !.response = errorResponse(result.thrown), !.thrown = NoError]
  ELSE result

\* a variant that answers with the token without waiting for the insert
handleCreateApiKeyRequest_AnswersBeforeInsert(request, options, n, clock, fault, drv, table) ==
  LET u == getUserId(request)
      d == parseCreateApiKeyRequest(request)
      c == createApiKey(d.data.claims,
                        MakeOptions(u.userId, options.issuer, options.aud, d.data.expiresAt),
                        n, clock, fault)
      ins == insertApiKey(drv, table,
                          ApiKeyRow(c.jwk.kid, u.userId, FALSE, c.jwk, d.data.databaseMetadata))
  IN  Asked(IF ~u.ok THEN Raise(u.error, table, NotCreated)
            ELSE IF ~d.ok THEN Raise(d.error, table, NotCreated)
            ELSE IF ~c.ok THEN Raise(c.error, table, c)
            ELSE RouteResult(Response(200, NoError, <<>>, c.jwt, c.jwk.kid, <<>>), ins.table, c))

handleCreateApiKeyRequest(request, options, n, clock, fault, drv, table) ==
  LET u == getUserId(request)
      d == parseCreateApiKeyRequest(request)
      c == createApiKey(d.data.claims,
                        MakeOptions(u.userId, options.issuer, options.aud, d.data.expiresAt),
                        n, clock, fault)
      ins == insertApiKey(drv, table,
                          ApiKeyRow(c.jwk.kid, u.userId, FALSE, c.jwk, d.data.databaseMetadata))
  IN  Asked(IF ~u.ok THEN Raise(u.error, table, NotCreated)
            ELSE IF ~d.ok THEN Raise(d.error, table, NotCreated)
            ELSE IF ~c.ok THEN Raise(c.error, table, c)
            ELSE IF ~ins.ok THEN Raise(ins.error, table, c)
            ELSE RouteResult(Response(200, NoError, <<>>, c.jwt, c.jwk.kid, <<>>), ins.table, c))

handleListApiKeysRequest(request, drv, table) ==
  LET u == getUserId(request)
      r == findApiKeys(drv, table, u.userId, 0 - 1, 0)
  IN  Asked(IF ~u.ok THEN Raise(u.error, table, NotCreated)
            ELSE IF ~r.ok THEN Raise(r.error, table, NotCreated)
            ELSE RouteResult(Response(200, NoError, <<>>, NoToken, <<>>, r.rows), table,
                             NotCreated))

\* a variant that does not compare the record's user_id with the user
handleGetApiKeyRequest_AnyOwner(request, drv, table, keyId) ==
  LET u == getUserId(request)
      r == getApiKey(drv, table, keyId)
  IN  Asked(IF ~u.ok THEN Raise(u.error, table, NotCreated)
            ELSE IF ~r.ok THEN Raise(r.error, table, NotCreated)
            ELSE IF ~r.found
            THEN Raise(NotFoundError("API key not found"), table, NotCreated)
            ELSE RouteResult(Response(200, NoError, <<>>, NoToken, <<>>, <<r.row>>), table,
                             NotCreated))

handleGetApiKeyRequest(request, drv, table, keyId) ==
  LET u == getUserId(request)
      r == getApiKey(drv, table, keyId)
  IN  Asked(IF ~u.ok THEN Raise(u.error, table, NotCreated)
            ELSE IF ~r.ok THEN Raise(r.error, table, NotCreated)
            ELSE IF ~r.found \/ r.row.user_id # u.userId
            THEN Raise(NotFoundError("API key not found"), table, NotCreated)
            ELSE RouteResult(Response(200, NoError, <<>>, NoToken, <<>>, <<r.row>>), table,
                             NotCreated))

\* a variant that revokes before it asks who the user is
handleRevokeApiKeyRequest_RevokesFirst(request, drv, table, keyId) ==
  LET u == getUserId(request)
      r == getApiKey(drv, table, keyId)
      v == revokeApiKey(drv, table, [user_id |-> request.user, kid |-> keyId])
  IN  Asked(IF ~v.ok THEN Raise(v.error, table, NotCreated)
            ELSE IF ~u.ok THEN Raise(u.error, v.table, NotCreated)
            ELSE IF ~r.ok THEN Raise(r.error, v.table, NotCreated)
            ELSE IF ~r.found \/ r.row.user_id # u.userId
            THEN Raise(NotFoundError("API key not found"), v.table, NotCreated)
            ELSE RouteResult(Response(200, NoError, <<>>, NoToken, <<>>, <<>>), v.table,
                             NotCreated))

handleRevokeApiKeyRequest(request, drv, table, keyId) ==
  LET u == getUserId(request)
      r == getApiKey(drv, table, keyId)
      v == revokeApiKey(drv, table, [user_id |-> u.userId, kid |-> keyId])
  IN  Asked(IF ~u.ok THEN Raise(u.error, table, NotCreated)
            ELSE IF ~r.ok THEN Raise(r.error, table, NotCreated)
            ELSE IF ~r.found \/ r.row.user_id # u.userId
            THEN Raise(NotFoundError("API key not found"), table, NotCreated)
            ELSE IF ~v.ok THEN Raise(v.error, table, NotCreated)
            ELSE RouteResult(Response(200, NoError, <<>>, NoToken, <<>>, <<>>), v.table,
                             NotCreated))

\* the function createApiKeyRouter wraps: the routes in the order tried
route(request, options, n, clock, fault, drv, table) ==
  LET k == ensureKid(request)
      invalid == Raise(NotFoundError("Invalid API key ID"), table, NotCreated)
  IN  IF matchPath(request, "POST", "")
      THEN handleCreateApiKeyRequest(request, options, n, clock, fault, drv, table)
      ELSE IF matchPath(request, "GET", "/my")
      THEN handleListApiKeysRequest(request, drv, table)
      ELSE IF matchPath(request, "GET", "/:id")
      THEN IF k.ok THEN handleGetApiKeyRequest(request, drv, table, k.kid) ELSE invalid
      ELSE IF matchPath(request, "DELETE", "/:id")
      THEN IF k.ok THEN handleRevokeApiKeyRequest(request, drv, table, k.kid) ELSE invalid
      ELSE Raise(NotFoundError("Route not found"), table, NotCreated)

\* createApiKeyRouter(options).fetch(request)
apiKeyRouterFetch(request, options, n, clock, fault, drv, table) ==
  wrapError(route(request, options, n, clock, fault, drv, table))

(***************************************************************************)
(* Inputs                                                                   *)
(***************************************************************************)
Users == {<<"u1">>, <<"u2">>}

Audience == <<"api-key">>

BasePlain == MakeURL("https:", "", "example.com", "", <<"/">>, <<>>, <<>>)

BaseSub == MakeURL("https:", "", "example.com", "", <<"/", "sub">>, <<>>, <<>>)

BaseSubSlash == MakeURL("https:", "", "example.com", "", <<"/", "sub", "/">>, <<>>, <<>>)

BaseQuery == MakeURL("https:", "", "example.com", "", <<"/">>, <<"?", "foo=bar">>, <<>>)

BaseHash == MakeURL("https:", "", "example.com", "", <<"/">>, <<>>, <<"#", "anchor">>)

BaseUserPort == MakeURL("https:", "user:pass", "example.com", "8080", <<"/">>, <<>>, <<>>)

BasePathQuery == MakeURL("http:", "", "localhost", "5173", <<"/", "my-path", "/">>, <<"?", "foo=bar">>, <<>>)

OtherBase == MakeURL("https:", "", "susu.dev", "", <<"/">>, <<>>, <<>>)

AllBases == {BasePlain, BaseSub, BaseSubSlash, BaseQuery, BaseHash, BaseUserPort, BasePathQuery}

\* the base issuers of the deployments of Spec
SysBases == {BaseSub}

MakeConfig(baseIssuer, aud) == [baseIssuer |-> baseIssuer, aud |-> aud]

\* the tokens and public keys handed out so far
IssuedTokens == {issued[i].jwt : i \in 1..Len(issued)}

IssuedKids == {issued[i].kid : i \in 1..Len(issued)}

\* the JWKS URL of a key id under a base issuer, as the README documents it
wellKnownUrl(baseIssuer, kid, dir) ==
  toString(appendPathToUrl(baseIssuer, kid \o <<"/", dir, "/", "jwks.json">>))

(***************************************************************************)
(* The record of the most recent operation                                  *)
(***************************************************************************)
NoAuthOptions ==
  MakeAuthenticateOptions(NullURL, MakeGetJWKS("none", NullURL, NoJWK), NoVerifyOptions)

NoAuth == AuthResult(FALSE, NoError, NoClaims, FALSE, FALSE, <<>>)

NoResponse == Response(0, NoError, <<>>, NoToken, <<>>, <<>>)

NoRequest == MakeRequest("", <<>>, <<>>, NoData)

NoDbResult == [ok |-> FALSE, error |-> NoError, found |-> FALSE, rows |-> <<>>]

DbResult(ok, error, found, rows) ==
  [ok |-> ok, error |-> error, found |-> found, rows |-> rows]

\* no appendPathToUrl call
NotComposed == [result |-> NullURL, base |-> NullURL, sameObject |-> FALSE]

Idle ==
  [op |-> "none", clock |-> 0,
   token |-> NoToken, options |-> NoAuthOptions, auth |-> NoAuth, accepted |-> FALSE,
   claims |-> NoClaims, createOptions |-> MakeOptions(<<>>, NullURL, <<>>, 0), fault |-> "none",
   n |-> 0, create |-> NotCreated,
   url |-> <<>>, request |-> NoRequest, response |-> NoResponse,
   apiKey |-> NoRow, dbResult |-> NoDbResult,
   base |-> NullURL, path |-> <<>>, composed |-> NotComposed,
   raised |-> FALSE, production |-> FALSE, http |-> NoHttp,
   thrown |-> NoError, asked |-> FALSE,
   scheme |-> "none", nextCalls |-> 0, user |-> NoUser]

(***************************************************************************)
(* Actions                                                                  *)
(***************************************************************************)
\* time passes
Tick ==
  /\ now < MaxTime
  /\ now' = now + 1
  /\ UNCHANGED <<calls, drawn, cfg, issued, driver, db, last>>

\* SqliteDriver.ensureTable(): CREATE TABLE IF NOT EXISTS, then prepareStatements()
EnsureTable ==
  /\ LET r == ensureTable(driver)
     IN  /\ driver' = r.driver
         /\ last' = [Idle EXCEPT !.op = "ensureTable", !.clock = now,
                                 !.dbResult = DbResult(r.ok, r.error, FALSE, <<>>)]
  /\ UNCHANGED <<calls, drawn, cfg, now, issued, db>>

\* SqliteDriver.close()
Close ==
  /\ LET r == close(driver)
     IN  /\ driver' = r.driver
         /\ last' = [Idle EXCEPT !.op = "close", !.clock = now,
                                 !.dbResult = DbResult(r.ok, r.error, FALSE, <<>>)]
  /\ UNCHANGED <<calls, drawn, cfg, now, issued, db>>

\* a call of createApiKey(claims, options); its result reaches the caller
CreateApiKey(claims, options, fault) ==
  /\ Len(issued) < MaxKeys
  /\ LET r == createApiKey(claims, options, Len(issued) + 1, now, fault)
     IN  /\ issued' = IF r.ok
                      THEN Append(issued, [jwk |-> r.jwk, jwt |-> r.jwt, kid |-> r.kid,
                                           claims |-> claims, options |-> options])
                      ELSE issued
         /\ last' = [Idle EXCEPT !.op = "createApiKey", !.clock = now, !.claims = claims,
                                 !.createOptions = options, !.fault = fault,
                                 !.n = Len(issued) + 1, !.create = r]
  /\ UNCHANGED <<calls, drawn, cfg, now, driver, db>>

\* SqliteDriver.insertApiKey(apiKey)
InsertApiKey(apiKey) ==
  /\ LET r == insertApiKey(driver, db, apiKey)
     IN  /\ db' = r.table
         /\ last' = [Idle EXCEPT !.op = "insertApiKey", !.clock = now, !.apiKey = apiKey,
                                 !.dbResult = DbResult(r.ok, r.error, FALSE, <<>>)]
  /\ UNCHANGED <<calls, drawn, cfg, now, issued, driver>>

\* SqliteDriver.getApiKey(kid)
GetApiKey(kid) ==
  /\ LET r == getApiKey(driver, db, kid)
     IN  last' = [Idle EXCEPT !.op = "getApiKey", !.clock = now, !.apiKey.kid = kid,
                              !.dbResult = DbResult(r.ok, r.error, r.found,
                                                    IF r.found THEN <<r.row>> ELSE <<>>)]
  /\ UNCHANGED <<calls, drawn, cfg, now, issued, driver, db>>

\* SqliteDriver.findApiKeys(user_id, limit, offset)
FindApiKeys(user_id, limit, offset) ==
  /\ LET r == findApiKeys(driver, db, user_id, limit, offset)
     IN  last' = [Idle EXCEPT !.op = "findApiKeys", !.clock = now, !.apiKey.user_id = user_id,
                              !.dbResult = DbResult(r.ok, r.error, FALSE, r.rows)]
  /\ UNCHANGED <<calls, drawn, cfg, now, issued, driver, db>>

\* SqliteDriver.revokeApiKey(filter)
RevokeApiKey(filter) ==
  /\ LET r == revokeApiKey(driver, db, filter)
     IN  /\ db' = r.table
         /\ last' = [Idle EXCEPT !.op = "revokeApiKey", !.clock = now,
                                 !.apiKey.kid = filter.kid, !.apiKey.user_id = filter.user_id,
                                 !.dbResult = DbResult(r.ok, r.error, FALSE, <<>>)]
  /\ UNCHANGED <<calls, drawn, cfg, now, issued, driver>>

\* a request to the worker createJWKSRouter({ baseIssuer, db }) exports
JWKSRequest(url) ==
  /\ last' = [Idle EXCEPT !.op = "jwksRequest", !.clock = now, !.url = url,
                          !.response = jwksRouterFetch(url, cfg.baseIssuer, driver, db)]
  /\ UNCHANGED <<calls, drawn, cfg, now, issued, driver, db>>

\* a call of isJWKSPath(request, baseIssuer) with this deployment's base issuer
IsJWKSPath(url) ==
  /\ LET r == isJWKSPath(url, cfg.baseIssuer)
     IN  last' = [Idle EXCEPT !.op = "isJWKSPath", !.clock = now, !.url = url,
                              !.accepted = r.value, !.raised = r.threw]
  /\ UNCHANGED <<calls, drawn, cfg, now, issued, driver, db>>

\* a request to the worker createApiKeyRouter(options) exports; the token of
\* a 200 response to POST reaches the client
ApiKeyRequest(request, fault) ==
  /\ matchPath(request, "POST", "") => Len(issued) < MaxKeys
  /\ LET r == apiKeyRouterFetch(request, [issuer |-> cfg.baseIssuer, aud |-> cfg.aud],
                                Len(issued) + 1, now, fault, driver, db)
     IN  /\ db' = r.table
         /\ issued' = IF r.response.status = 200 /\ r.created.ok
                      THEN Append(issued, [jwk |-> r.created.jwk, jwt |-> r.created.jwt,
                                           kid |-> r.created.kid,
                                           claims |-> request.data.claims,
                                           options |-> MakeOptions(request.user, cfg.baseIssuer,
                                                                   cfg.aud,
                                                                   request.data.expiresAt)])
                      ELSE issued
         /\ last' = [Idle EXCEPT !.op = "apiKeyRequest", !.clock = now, !.request = request,
                                 !.fault = fault, !.response = r.response,
                                 !.create = r.created, !.thrown = r.thrown,
                                 !.asked = r.asked]
  /\ UNCHANGED <<calls, drawn, cfg, now, driver>>

\* a call of authenticate(token, options); a remote resolver fetches from
\* this deployment's JWKS router
Authenticate(token, options) ==
  /\ last' = [Idle EXCEPT !.op = "authenticate", !.clock = now, !.token = token,
                          !.options = options,
                          !.auth = authenticate(token, options, now,
                                                MakeEnv(cfg.baseIssuer, driver, db))]
  /\ UNCHANGED <<calls, drawn, cfg, now, issued, driver, db>>

\* a request with 'Authorization: Bearer <token>' through the express
\* middleware authenticateApiKey(options)
AuthenticateApiKey(scheme, token, options, isProduction) ==
  /\ LET record(r) ==
           [Idle EXCEPT !.op = "authenticateApiKey", !.clock = now, !.scheme = scheme,
                        !.token = token, !.options = options, !.production = isProduction,
                        !.auth = r.auth, !.http = r.http, !.nextCalls = r.nextCalls,
                        !.user = r.user]
     IN  last' = record(authenticateApiKey(scheme, token, options, isProduction, now,
                                           MakeEnv(cfg.baseIssuer, driver, db)))
  /\ UNCHANGED <<calls, drawn, cfg, now, issued, driver, db>>

\* a call of shouldAuthenticate(token, baseIssuer)
ShouldAuthenticate(token, baseIssuer) ==
  /\ LET r == shouldAuthenticateCall(token, baseIssuer)
     IN  last' = [Idle EXCEPT !.op = "shouldAuthenticate", !.clock = now, !.token = token,
                              !.options.baseIssuer = baseIssuer,
                              !.accepted = r.value, !.raised = r.threw]
  /\ UNCHANGED <<calls, drawn, cfg, now, issued, driver, db>>

(***************************************************************************)
(* Tokens a bearer may present: issued ones and forgeries made from them    *)
(***************************************************************************)
\* the same header and payload, signed with another key pair
Resign(t, key) == Sign(t.header, t.payload, generateKeyPair(key).privateKey)

\* the header kid replaced, the signature left as it was
WithKid(t, kid) == [t EXCEPT !.header.kid = kid]

\* one claim replaced or added, the signature left as it was
WithClaim(t, name, value) ==
  [t EXCEPT !.payload = Spread(t.payload, [x \in {name} |-> value])]

\* one claim removed, the signature left as it was
WithoutClaim(t, name) ==
  [t EXCEPT !.payload = [x \in (DOMAIN t.payload) \ {name} |-> t.payload[x]]]

(***************************************************************************)
(* Spec: one deployment - the store, the two routers, issuance and          *)
(* verification through the reference resolver                              *)
(***************************************************************************)
SysClaims == [scopes |-> Arr(<<"read">>)]

\* new Date(1500): exp = 1, so a key is unexpired at time 0 only
SysExpiresAt == 1500

SysTokens == IssuedTokens \cup {NoToken}

SysAuthOptions ==
  MakeAuthenticateOptions(cfg.baseIssuer, MakeGetJWKS("remote", cfg.baseIssuer, NoJWK),
                          NoVerifyOptions)

SysKids == IssuedKids \cup {<<ForeignUuid>>}

SysUrls ==
  {wellKnownUrl(cfg.baseIssuer, k, ".well-known") : k \in SysKids \cup {<<"not-a-uuid">>}}
    \cup {wellKnownUrl(cfg.baseIssuer, k, ".well_known") : k \in IssuedKids}

SysRequests ==
  {MakeRequest("POST", <<>>, u, MakeCreateData(SysExpiresAt, SysClaims, NoClaims)) : u \in Users}
    \cup {MakeRequest(m, <<"/">> \o k, u, NoData) :
            m \in {"GET", "DELETE"}, k \in IssuedKids \cup {<<"my">>}, u \in Users}

\* the sub claim of an issued token: the user the key was issued to
OwnerOf(key) == key.jwt.payload["sub"].s

\* the library call of createApiKey that throws, if any
Faults == {"none", "badIssuer", "generateKeyPair", "exportJWK", "SignJWT"}

Init ==
  /\ cfg \in {MakeConfig(b, Audience) : b \in SysBases}
  /\ now = 0
  /\ issued = <<>>
  /\ driver = "new"
  /\ db = <<>>
  /\ last = Idle
  /\ calls = <<>>
  /\ drawn = 0

Next ==
  \/ Tick
  \/ EnsureTable
  \/ \E u \in Users, fault \in Faults :
       CreateApiKey(SysClaims, MakeOptions(u, cfg.baseIssuer, cfg.aud, SysExpiresAt), fault)
  \/ \E i \in 1..Len(issued), r \in BOOLEAN :
       InsertApiKey(ApiKeyRow(issued[i].kid, OwnerOf(issued[i]), r, issued[i].jwk, NoClaims))
  \/ \E k \in SysKids : GetApiKey(k)
  \/ \E u \in Users, limit \in {0 - 1, 1}, offset \in {0, 1} : FindApiKeys(u, limit, offset)
  \/ \E u \in Users, k \in SysKids : RevokeApiKey([user_id |-> u, kid |-> k])
  \/ \E url \in SysUrls : JWKSRequest(url)
  \/ \E request \in SysRequests : ApiKeyRequest(request, "none")
  \/ \E t \in SysTokens : Authenticate(t, SysAuthOptions)

Spec == Init /\ [][Next]_vars

(***************************************************************************)
(* Properties of Spec                                                       *)
(***************************************************************************)
\* the stored rows of a key id
RowsOf(kid) == {i \in 1..Len(db) : db[i].kid = kid}

\* the step calls revokeApiKey: directly, or through DELETE /:id
RevokeStep ==
  \/ last'.op = "revokeApiKey"
  \/ last'.op = "apiKeyRequest" /\ last'.request.method = "DELETE"

\* C3: with an initialised store, authenticate through the reference
\* resolver and the JWKS router succeeds for the token of an unexpired key
\* whose record is stored and not revoked, and fails with UnauthorizedError
\* (403) for the token of a key whose record is revoked.
C3_AuthenticateFollowsRevocation ==
  \A i \in 1..Len(issued) :
    (last.op = "authenticate" /\ last.token = issued[i].jwt /\ driver = "ready") =>
      /\ ( /\ \E r \in RowsOf(issued[i].kid) : db[r].revoked = 0
           /\ issued[i].jwt.payload["exp"].n > last.clock )
         => last.auth.ok
      /\ (\E r \in RowsOf(issued[i].kid) : db[r].revoked = 1)
         => (~last.auth.ok /\ last.auth.error.name = "UnauthorizedError"
             /\ last.auth.error.code = 403)

\* C4: with an initialised store, a request for
\* <baseIssuer>/<kid>/.well-known/jwks.json is answered 200 with exactly the
\* key's issued public JWK if a record of kid is stored and not revoked, and
\* otherwise 404 'API key not found' with no key in the body.
C4_JwksRouteServesLiveKeysOnly ==
  \A k \in UUIDs :
    ( /\ last.op = "jwksRequest"
      /\ driver = "ready"
      /\ last.url = wellKnownUrl(cfg.baseIssuer, <<k>>, ".well-known") ) =>
      IF \E r \in RowsOf(<<k>>) : db[r].revoked = 0
      THEN /\ last.response.status = 200
           /\ \E j \in 1..Len(issued) :
                issued[j].kid = <<k>> /\ last.response.keys = <<issued[j].jwk>>
      ELSE /\ last.response.status = 404
           /\ last.response.message = "API key not found"
           /\ last.response.keys = <<>>

\* C4 witness: the JWKS of a stored but revoked key was requested and refused
C4_Witness ==
  /\ last.op = "jwksRequest"
  /\ last.response.status = 404
  /\ \E r \in 1..Len(db) :
       /\ db[r].revoked = 1
       /\ last.url = wellKnownUrl(cfg.baseIssuer, db[r].kid, ".well-known")

\* C5: every step keeps every stored record; a record changes only in a
\* step that calls revokeApiKey, and then only by its revoked flag becoming
\* set - so a revoked record is never un-revoked.
C5_RevokedIsMonotonic ==
  [][\A i \in 1..Len(db) :
       \E j \in 1..Len(db') :
         /\ db'[j].kid = db[i].kid
         /\ \/ db'[j] = db[i]
            \/ RevokeStep /\ db'[j] = [db[i] EXCEPT !.revoked = 1]]_vars

\* C5 witness: an insert for the kid of a revoked record, with revoked =
\* false, was attempted and refused
C5_Witness ==
  /\ last.op = "insertApiKey"
  /\ ~last.apiKey.revoked
  /\ ~last.dbResult.ok
  /\ \E r \in RowsOf(last.apiKey.kid) : db[r].revoked = 1

\* C10: the URL the reference resolver fetches is the token's issuer
\* followed by '/.well-known/jwks.json'.
C10_ResolverFetchesWellKnownUrl ==
  (last.op = "authenticate" /\ last.auth.fetched # <<>>) =>
    last.auth.fetched = last.token.payload["iss"].s \o <<"/", ".well-known", "/", "jwks.json">>

(***************************************************************************)
(* SpecVerify: authenticate called with issued tokens and forgeries made    *)
(* from them, under every kind of resolver                                  *)
(***************************************************************************)
VerifyBases == {BaseSub, BaseSubSlash, BaseQuery}

VerifyUser == <<"u1">>

\* the textual prefix every issuer of a base starts with
PrefixOf(base) ==
  IF EndsWith(toString(base), <<"/">>) THEN toString(base) ELSE toString(base) \o <<"/">>

\* the tokens a bearer can make from the token t of an issued key that the
\* structural checks are to turn down
StructuralForgeries(t) ==
  LET prefix == PrefixOf(cfg.baseIssuer)
      foreign == <<ForeignUuid>>
  IN  { WithKid(t, foreign),
        Resign(WithKid(t, foreign), AttackerKey),
        Resign(WithoutClaim(t, "ver"), AttackerKey),
        Resign(WithClaim(t, "ver", Num(1)), AttackerKey),
        Resign(WithClaim(t, "ver", Null), AttackerKey),
        Resign(WithClaim(t, "ver", Str(<<>>)), AttackerKey),
        Resign(WithClaim(t, "ver", Str(<<VER_PREFIX>>)), AttackerKey),
        Resign(WithClaim(t, "ver", Str(<<VER_PREFIX, "2">>)), AttackerKey),
        Resign(WithClaim(t, "ver", Str(<<VER_PREFIX, "1", "0">>)), AttackerKey),
        Resign(WithClaim(t, "ver", Str(<<VER_PREFIX, "1", "0", "0", "0">>)), AttackerKey),
        Resign(WithClaim(t, "ver", Str(<<"v", "1">>)), AttackerKey),
        Resign(WithClaim(t, "ver", Str(<<"JAPIKEY-V", "1">>)), AttackerKey),
        Resign(WithClaim(t, "ver", Str(<<"extra-chars-", VER_PREFIX, "1">>)), AttackerKey),
        Resign(WithClaim(t, "ver", Str(<<VER_PREFIX, "1", "-extra-suffix">>)), AttackerKey),
        Resign(WithClaim(t, "ver", Str(<<VER_PREFIX, "1", ".", "1">>)), AttackerKey),
        Resign(WithoutClaim(t, "iss"), AttackerKey),
        Resign(WithClaim(t, "iss", Num(1)), AttackerKey),
        Resign(WithClaim(t, "iss", Null), AttackerKey),
        Resign(WithClaim(t, "iss", Str(<<>>)), AttackerKey),
        Resign(WithClaim(t, "iss", Str(PrefixOf(OtherBase) \o t.header.kid)), AttackerKey),
        Resign(WithClaim(t, "iss", Str(prefix \o foreign)), AttackerKey),
        Resign(WithClaim(WithKid(t, <<"not-a-uuid">>), "iss", Str(prefix \o <<"not-a-uuid">>)),
               AttackerKey),
        Resign(WithClaim(t, "iss", Str(prefix \o <<"x", "/">> \o t.header.kid)), AttackerKey),
        Resign(WithClaim(t, "iss", Str(toString(cfg.baseIssuer) \o t.header.kid)), AttackerKey),
        Resign(WithClaim(t, "iss", Str(prefix \o t.header.kid \o <<"/">>)), AttackerKey),
        Resign(WithClaim(t, "iss", Str(prefix \o t.header.kid \o <<"?", "x=1">>)), AttackerKey),
        Resign(WithClaim(t, "iss",
                         Str(PrefixOf([cfg.baseIssuer EXCEPT !.host = "example.com.evil.org"])
                               \o t.header.kid)), AttackerKey) }

\* the tokens a bearer can make from t that are well formed, and that only
\* the signature and claim verification can turn down
VerifiableForgeries(t) ==
  { Resign(t, AttackerKey),
    Resign(WithClaim(t, "ver", Str(<<VER_PREFIX, "0", "0", "1">>)), AttackerKey),
    Resign(WithClaim(t, "ver", Str(<<VER_PREFIX, "0">>)), AttackerKey),
    Resign([t EXCEPT !.header.alg = "HS256"], AttackerKey),
    Resign(WithClaim(t, "nbf", Num(t.payload["iat"].n + 1)), t.sig.key),
    Resign(WithoutClaim(t, "exp"), t.sig.key) }

\* bearer tokens that are no API key of the base issuer: one that does not
\* decode, one without issuer, one of another issuer
UnlikelyTokens(t) ==
  {NoToken,
   Resign(WithoutClaim(t, "iss"), AttackerKey),
   Resign(WithClaim(t, "iss", Str(PrefixOf(OtherBase) \o t.header.kid)), AttackerKey)}

\* the tokens a bearer can make from the token t of an issued key
Forgeries(t) == StructuralForgeries(t) \cup VerifiableForgeries(t)

\* the resolvers and verify options a verifier may be configured with for
\* the key of token t
VerifierOptions(key) ==
  LET base == cfg.baseIssuer
      own == MakeGetJWKS("local", base, key.jwk)
  IN  { MakeAuthenticateOptions(base, own, NoVerifyOptions),
        MakeAuthenticateOptions(base, own, MakeVerifyOptions(cfg.aud, {})),
        MakeAuthenticateOptions(base, own, MakeVerifyOptions(<<"other-aud">>, {"HS256"})),
        MakeAuthenticateOptions(base, MakeGetJWKS("local", base,
                                                  generateJWK(generateKeyPair(AttackerKey).publicKey, key.kid)),
                                MakeVerifyOptions(<<>>, {"HS256"})),
        MakeAuthenticateOptions(base, MakeGetJWKS("remote", base, NoJWK), NoVerifyOptions),
        MakeAuthenticateOptions(base, MakeGetJWKS("remote", OtherBase, NoJWK), NoVerifyOptions),
        MakeAuthenticateOptions(base, MakeGetJWKS("throws", base, NoJWK), NoVerifyOptions) }

\* the options of the express middleware: the key's own resolver, another
\* key under the same kid, the remote key set, a resolver that fails
ExpressOptions(key) ==
  LET base == cfg.baseIssuer
  IN  { MakeAuthenticateOptions(base, MakeGetJWKS("local", base, key.jwk), NoVerifyOptions),
        MakeAuthenticateOptions(base, MakeGetJWKS("local", base,
                                                  generateJWK(generateKeyPair(AttackerKey).publicKey, key.kid)),
                                NoVerifyOptions),
        MakeAuthenticateOptions(base, MakeGetJWKS("remote", base, NoJWK), NoVerifyOptions),
        MakeAuthenticateOptions(base, MakeGetJWKS("throws", base, NoJWK), NoVerifyOptions) }

\* the options the tokens of key are presented with: every configuration for
\* a well-formed token, three resolvers for a token of StructuralForgeries
OptionsFor(t, key) ==
  IF t \in StructuralForgeries(key.jwt)
  THEN { MakeAuthenticateOptions(cfg.baseIssuer, MakeGetJWKS("local", cfg.baseIssuer, key.jwk),
                                 NoVerifyOptions),
         MakeAuthenticateOptions(cfg.baseIssuer,
                                 MakeGetJWKS("local", cfg.baseIssuer,
                                             generateJWK(generateKeyPair(AttackerKey).publicKey, key.kid)),
                                 MakeVerifyOptions(<<>>, {"HS256"})),
         MakeAuthenticateOptions(cfg.baseIssuer, MakeGetJWKS("throws", cfg.baseIssuer, NoJWK),
                                 NoVerifyOptions) }
  ELSE VerifierOptions(key)

\* the keys a verifier is presented tokens of
MaxVerifyKeys == 1

InitVerify ==
  /\ cfg \in {MakeConfig(b, Audience) : b \in VerifyBases}
  /\ now = 0
  /\ issued = <<>>
  /\ driver = "ready"
  /\ db = <<>>
  /\ last = Idle
  /\ calls = <<>>
  /\ drawn = 0

NextVerify ==
  \/ Tick
  \/ /\ Len(issued) < MaxVerifyKeys
     /\ CreateApiKey(SysClaims, MakeOptions(VerifyUser, cfg.baseIssuer, cfg.aud, SysExpiresAt),
                     "none")
  \/ \E i \in 1..Len(issued) :
       \E t \in {issued[i].jwt, NoToken} \cup (IF i = Len(issued) THEN Forgeries(issued[i].jwt) ELSE {}) :
         \E o \in OptionsFor(t, issued[i]) :
           Authenticate(t, o)
  \/ \E i \in 1..Len(issued) :
       \E t \in {issued[i].jwt, NoToken} \cup (IF i = Len(issued) THEN Forgeries(issued[i].jwt) ELSE {}),
          b \in {cfg.baseIssuer, OtherBase} :
         ShouldAuthenticate(t, b)
  \/ \E i \in 1..Len(issued) :
       \E t \in {issued[i].jwt, NoToken} \cup (IF i = Len(issued) THEN VerifiableForgeries(issued[i].jwt) ELSE {}),
          o \in ExpressOptions(issued[i]), isProduction \in BOOLEAN :
         AuthenticateApiKey("bearer", t, o, isProduction)
  \/ \E i \in 1..Len(issued) :
       \E scheme \in {"none", "basic", "bearer"}, t \in UnlikelyTokens(issued[i].jwt) :
         AuthenticateApiKey(scheme, t, SysAuthOptions, FALSE)

SpecVerify == InitVerify /\ [][NextVerify]_vars

\* the key id a token's issuer names under a base, <<>> if the issuer is
\* not the base's prefix followed by a UUID
NamedKid(token, base) ==
  LET iss == Get(token.payload, "iss")
      named == {u \in UUIDs : iss = Str(PrefixOf(base) \o <<u>>)}
  IN  IF named = {} THEN <<>> ELSE <<CHOOSE u \in named : TRUE>>

\* the version claims of protocol versions up to VER_NUM, in one to three digits
SupportedVersions ==
  {Str(<<VER_PREFIX>> \o ds) :
     ds \in {<<"0">>, <<"1">>, <<"0", "0">>, <<"0", "1">>, <<"0", "0", "0">>, <<"0", "0", "1">>}}

\* the token fails a structural check against the base issuer
StructurallyBad(token, base) ==
  \/ ~token.decodable
  \/ NamedKid(token, base) = <<>>
  \/ token.header.kid # NamedKid(token, base)
  \/ Get(token.payload, "ver") \notin SupportedVersions

\* C1: an authenticate call for a token that fails a structural check fails
\* with MalformedTokenError (401), and neither the getJWKS resolver nor
\* jwtVerify was invoked.
C1_StructuralFailureIsMalformed ==
  (last.op = "authenticate" /\ StructurallyBad(last.token, last.options.baseIssuer)) =>
    /\ ~last.auth.ok
    /\ last.auth.error.name = "MalformedTokenError"
    /\ last.auth.error.code = 401
    /\ ~last.auth.resolverCalled
    /\ ~last.auth.verifyCalled

\* C1 witness: a token whose header kid alone differs from its issuer's key
\* id, signed so that the key the resolver holds verifies it, was refused as
\* malformed
C1_Witness ==
  /\ last.op = "authenticate"
  /\ last.token.decodable
  /\ NamedKid(last.token, last.options.baseIssuer) # <<>>
  /\ last.token.header.kid # NamedKid(last.token, last.options.baseIssuer)
  /\ Get(last.token.payload, "ver") = Str(VER)
  /\ last.options.getJWKS.kind = "local"
  /\ signatureValid(last.token, last.options.getJWKS.jwk)
  /\ last.auth.error.name = "MalformedTokenError"

\* C2: an authenticate call for a token that passes every structural check
\* either succeeds or fails with UnauthorizedError (403, 'Failed to verify
\* token').
C2_LaterFailureIsUnauthorized ==
  ( /\ last.op = "authenticate"
    /\ ~StructurallyBad(last.token, last.options.baseIssuer)
    /\ ~last.auth.ok ) =>
    /\ last.auth.error.name = "UnauthorizedError"
    /\ last.auth.error.code = 403
    /\ last.auth.error.message = "Failed to verify token"

\* C2 witness: the reference resolver of another base issuer refused the
\* issuer of a structurally good token, and the call failed as unauthorized
C2_Witness ==
  /\ last.op = "authenticate"
  /\ ~StructurallyBad(last.token, last.options.baseIssuer)
  /\ last.options.getJWKS.kind = "remote"
  /\ last.options.getJWKS.base # last.options.baseIssuer
  /\ last.auth.resolverCalled
  /\ ~last.auth.verifyCalled
  /\ last.auth.error.name = "UnauthorizedError"

(***************************************************************************)
(* SpecIssue: createApiKey over every kind of base issuer and caller        *)
(* claims, each issued token then checked with the key just issued          *)
(***************************************************************************)
\* caller claims: none, a plain map, a map naming every protocol claim, a
\* map with an issued-at time of the caller's
IssueClaims ==
  { NoClaims,
    SysClaims,
    [sub |-> Str(<<"root">>), iss |-> Str(toString(OtherBase)), aud |-> Str(<<"other-aud">>),
     exp |-> Num(9), ver |-> Str(<<VER_PREFIX, "9">>), role |-> Str(<<"admin">>)],
    [iat |-> Num(7), scopes |-> Arr(<<"read">>)] }

IssueSubs == {<<>>, VerifyUser}

\* Date.getTime() of options.expiresAt: before the epoch, the epoch, and a
\* time that is not a whole second
IssueExpiresAt == {0 - 1, 0, 1999}

\* the verifier of the round trip: the same base issuer, a resolver that
\* returns exactly the JWK issued with the token
RoundTripOptions(key, verifyOptions) ==
  MakeAuthenticateOptions(key.options.iss, MakeGetJWKS("local", key.options.iss, key.jwk),
                          verifyOptions)

InitIssue ==
  /\ cfg \in {MakeConfig(b, Audience) : b \in AllBases}
  /\ now = 0
  /\ issued = <<>>
  /\ driver = "new"
  /\ db = <<>>
  /\ last = Idle
  /\ calls = <<>>
  /\ drawn = 0

NextIssue ==
  \/ Tick
  \/ \E c \in IssueClaims, sub \in IssueSubs, e \in IssueExpiresAt :
       CreateApiKey(c, MakeOptions(sub, cfg.baseIssuer, cfg.aud, e), "none")
  \/ \E fault \in Faults, sub \in IssueSubs, e \in {0 - 1, SysExpiresAt} :
       CreateApiKey(SysClaims, MakeOptions(sub, cfg.baseIssuer, cfg.aud, e), fault)
  \/ \E i \in 1..Len(issued), v \in {NoVerifyOptions, MakeVerifyOptions(cfg.aud, {})} :
       Authenticate(issued[i].jwt, RoundTripOptions(issued[i], v))
  \/ \E i \in 1..Len(issued) : ShouldAuthenticate(issued[i].jwt, issued[i].options.iss)

SpecIssue == InitIssue /\ [][NextIssue]_vars

\* the claims createApiKey sets itself
ProtocolClaims == {"sub", "iss", "aud", "exp", "ver"}

\* <base without query and fragment>/<kid>
IssuerFor(base, kid) ==
  PrefixOf([base EXCEPT !.search = <<>>, !.hash = <<>>]) \o kid

\* whole seconds of a time in milliseconds
FloorSeconds(ms) == CHOOSE e \in 0..ms : e * 1000 <= ms /\ ms < (e + 1) * 1000

\* the last successful createApiKey call set the protocol claims from its options
ProtocolClaimsFromOptions ==
  LET payload == last.create.jwt.payload
      options == last.createOptions
  IN  /\ ProtocolClaims \subseteq DOMAIN payload
      /\ payload["sub"] = Str(options.sub)
      /\ payload["aud"] = Str(options.aud)
      /\ payload["iss"] = Str(IssuerFor(options.iss, last.create.kid))
      /\ payload["ver"] = Str(<<"japikey-v", "1">>)
      /\ payload["exp"] = Num(FloorSeconds(options.expiresAt))

\* C6: an issued token that has not expired, authenticated with the base
\* issuer it was issued for and a resolver returning the JWK issued with it,
\* is accepted, and the returned claims have sub, aud and exp equal to the
\* inputs and every extra claim of the caller (iat aside) unchanged.
C6_RoundTrip ==
  \A i \in 1..Len(issued), v \in {NoVerifyOptions, MakeVerifyOptions(cfg.aud, {})} :
    ( /\ last.op = "authenticate"
      /\ last.token = issued[i].jwt
      /\ last.options = RoundTripOptions(issued[i], v)
      /\ FloorSeconds(issued[i].options.expiresAt) > last.clock ) =>
      /\ last.auth.ok
      /\ Get(last.auth.payload, "sub") = Str(issued[i].options.sub)
      /\ Get(last.auth.payload, "aud") = Str(issued[i].options.aud)
      /\ Get(last.auth.payload, "exp") = Num(FloorSeconds(issued[i].options.expiresAt))
      /\ \A k \in (DOMAIN issued[i].claims) \ (ProtocolClaims \cup {"iat"}) :
           Get(last.auth.payload, k) = issued[i].claims[k]

\* C7: a token issued for a base issuer is accepted by shouldAuthenticate
\* called with the same base issuer.
C7_IssuedTokenPassesShouldAuthenticate ==
  \A i \in 1..Len(issued) :
    ( /\ last.op = "shouldAuthenticate"
      /\ last.token = issued[i].jwt
      /\ last.options.baseIssuer = issued[i].options.iss ) =>
      last.accepted

\* C8 as stated: the protocol claims come from the options, and every other
\* claim of the caller, iat included, is in the payload unchanged.
C8_AllOtherClaimsCarried ==
  (last.op = "createApiKey" /\ last.create.ok) =>
    /\ ProtocolClaimsFromOptions
    /\ \A k \in (DOMAIN last.claims) \ ProtocolClaims :
         Get(last.create.jwt.payload, k) = last.claims[k]

\* C8: the protocol claims come from the options whatever the caller's
\* claims say, iat is the time of signing, and every other claim of the
\* caller is in the payload unchanged; the payload has no further claims.
C8_ProtocolClaimsWin ==
  (last.op = "createApiKey" /\ last.create.ok) =>
    /\ ProtocolClaimsFromOptions
    /\ Get(last.create.jwt.payload, "iat") = Num(last.clock)
    /\ \A k \in (DOMAIN last.claims) \ (ProtocolClaims \cup {"iat"}) :
         Get(last.create.jwt.payload, k) = last.claims[k]
    /\ DOMAIN last.create.jwt.payload = DOMAIN last.claims \cup ProtocolClaims \cup {"iat"}

\* C8 witness: a key was issued for claims that name every protocol claim
C8_Witness ==
  /\ last.op = "createApiKey"
  /\ last.create.ok
  /\ ProtocolClaims \subseteq DOMAIN last.claims
  /\ last.createOptions.expiresAt = 1999
  /\ last.create.jwt.payload["exp"] = Num(1)

\* C9: a successful createApiKey returns one well-formed UUID as its kid, as
\* the kid of the JWK, as the kid of the token's protected header and as the
\* last path segment of the token's iss; the header alg is RS256.
C9_OneKidEverywhere ==
  (last.op = "createApiKey" /\ last.create.ok) =>
    LET c == last.create
        iss == Get(c.jwt.payload, "iss").s
    IN  /\ Len(c.kid) = 1
        /\ c.kid[1] \in UUIDs
        /\ c.jwk.kid = c.kid
        /\ c.jwt.header.kid = c.kid
        /\ Len(iss) >= 2
        /\ iss[Len(iss) - 1] = "/"
        /\ <<iss[Len(iss)]>> = c.kid
        /\ c.jwt.header.alg = "RS256"

\* C9 witness: a second key was issued, for a base issuer with a query
\* string and caller claims that name iss
C9_Witness ==
  /\ last.op = "createApiKey"
  /\ last.create.ok
  /\ last.n = 2
  /\ last.createOptions.iss.search # <<>>
  /\ "iss" \in DOMAIN last.claims

(***************************************************************************)
(* SpecUrl: appendPathToUrl over base URLs and relative paths               *)
(***************************************************************************)
BaseQueryHash ==
  MakeURL("https:", "user:pass", "example.com", "", <<"/", "sub">>, <<"?", "param=value">>, <<"#", "anchor">>)

\* new URL('https://example.com/sub//')
BaseDoubleSlash == MakeURL("https:", "", "example.com", "", <<"/", "sub", "/", "/">>, <<>>, <<>>)

UrlBases == AllBases \cup {OtherBase, BaseQueryHash, BaseDoubleSlash}

UrlPaths ==
  { <<>>, <<"/">>, <<"x">>, <<"/", "x">>, <<"x", "/">>, <<"/", "/", "x">>,
    <<"api", "/", "v1">>, <<"/", "api", "/", "v1", "/">>,
    <<"..">>, <<"..", "/", "x">>, <<".">>, <<"a", "?", "b">>, <<"a", "#", "b">>,
    <<"uuid-1">>, <<".well-known", "/", "jwks.json">> }

\* a call of appendPathToUrl(base, path) with this deployment's base issuer
AppendPathToUrl(path) ==
  /\ last' = [Idle EXCEPT !.op = "appendPathToUrl", !.clock = now, !.base = cfg.baseIssuer,
                          !.path = path,
                          !.composed = appendPathToUrlCall(cfg.baseIssuer, path)]
  /\ UNCHANGED <<calls, drawn, cfg, now, issued, driver, db>>

InitUrl ==
  /\ cfg \in {MakeConfig(b, Audience) : b \in UrlBases}
  /\ now = 0
  /\ issued = <<>>
  /\ driver = "new"
  /\ db = <<>>
  /\ last = Idle
  /\ calls = <<>>
  /\ drawn = 0

NextUrl == \E path \in UrlPaths : AppendPathToUrl(path)

SpecUrl == InitUrl /\ [][NextUrl]_vars

\* s without the '/' it starts with
RECURSIVE StripLeadingSlashes(_)
StripLeadingSlashes(s) ==
  IF s # <<>> /\ Head(s) = "/" THEN StripLeadingSlashes(Tail(s)) ELSE s

\* s without the '/' it ends with
RECURSIVE StripTrailingSlashes(_)
StripTrailingSlashes(s) ==
  IF s # <<>> /\ s[Len(s)] = "/" THEN StripTrailingSlashes(SubSeq(s, 1, Len(s) - 1)) ELSE s

\* C11: for a non-empty path the result keeps the base's scheme, userinfo,
\* host and port, has no query string and no fragment, its path is the
\* base's path and the relative path with exactly one '/' between them, and
\* the base argument is as it was.
C11_JoinsWithOneSlash ==
  (last.op = "appendPathToUrl" /\ last.path # <<>>) =>
    LET r == last.composed.result
    IN  /\ r.protocol = last.base.protocol
        /\ r.userinfo = last.base.userinfo
        /\ r.host = last.base.host
        /\ r.port = last.base.port
        /\ r.search = <<>>
        /\ r.hash = <<>>
        /\ r.pathname = StripTrailingSlashes(last.base.pathname) \o <<"/">>
                          \o StripLeadingSlashes(last.path)
        /\ last.composed.base = last.base

\* C12: for an empty path the result is the base with a trailing '/' on its
\* path and without its query string and fragment.
C12_EmptyPathNormalisesBase ==
  (last.op = "appendPathToUrl" /\ last.path = <<>>) =>
    last.composed.result =
      [last.base EXCEPT !.search = <<>>,
                        !.hash = <<>>,
                        !.pathname = IF EndsWith(last.base.pathname, <<"/">>)
                                     THEN last.base.pathname
                                     ELSE last.base.pathname \o <<"/">>]

(***************************************************************************)
(* Failures of createApiKey (checked under SpecIssue)                       *)
(***************************************************************************)
\* the last createApiKey call produced nothing
NothingProduced ==
  /\ ~last.create.ok
  /\ last.create.jwk = NoJWK
  /\ last.create.jwt = NoToken
  /\ last.create.kid = <<>>

\* the options of the last createApiKey call violate a precondition
PreconditionViolated ==
  last.createOptions.expiresAt < 0 \/ last.createOptions.sub = <<>>

\* C13: a createApiKey call whose expiresAt is before the epoch or whose
\* subject is empty fails without a key pair having been generated and
\* without a JWK, token or kid; for an issuer that is a URL the failure is
\* IncorrectUsageError.
C13_PreconditionsBeforeKeyMaterial ==
  (last.op = "createApiKey" /\ PreconditionViolated) =>
    /\ NothingProduced
    /\ ~last.create.keyPairGenerated
    /\ last.fault # "badIssuer" =>
         (last.create.error.name = "IncorrectUsageError" /\ last.create.error.code = 500)

\* C13 witness: a call with an empty subject and a valid expiresAt, in a
\* run where key-pair generation would have thrown, failed as incorrect usage
C13_Witness ==
  /\ last.op = "createApiKey"
  /\ last.createOptions.sub = <<>>
  /\ last.createOptions.expiresAt >= 0
  /\ last.fault = "generateKeyPair"
  /\ last.create.error.name = "IncorrectUsageError"
  /\ ~last.create.keyPairGenerated

\* C14: every failed createApiKey call raises a JapikeyError: SigningError
\* when key-pair generation, public-key export or signing threw,
\* IncorrectUsageError when a precondition is violated, UnknownError for any
\* other exception.
C14_FailuresAreTyped ==
  (last.op = "createApiKey" /\ ~last.create.ok) =>
    LET name == last.create.error.name
    IN  /\ name \in {"SigningError", "IncorrectUsageError", "UnknownError"}
        /\ last.create.error.code = 500
        /\ NothingProduced
        /\ (PreconditionViolated /\ last.fault # "badIssuer") => name = "IncorrectUsageError"
        /\ (~PreconditionViolated /\ last.fault \in {"generateKeyPair", "exportJWK", "SignJWT"})
             => name = "SigningError"
        /\ (~PreconditionViolated /\ last.fault = "badIssuer") => name = "UnknownError"
        /\ name = "IncorrectUsageError" => PreconditionViolated

\* C14 witness: the exception of an issuer that is not a URL left
\* createApiKey as UnknownError
C14_Witness ==
  /\ last.op = "createApiKey"
  /\ last.fault = "badIssuer"
  /\ ~PreconditionViolated
  /\ last.create.error.name = "UnknownError"
  /\ last.create.error.message = "Failed to create API key"

(***************************************************************************)
(* The structural checks one by one (checked under SpecVerify)              *)
(***************************************************************************)
\* the last call was a structural check of a decodable token
CheckedDecodable ==
  last.op \in {"authenticate", "shouldAuthenticate"} /\ last.token.decodable

\* the last call turned its token down as malformed
TurnedDown ==
  IF last.op = "shouldAuthenticate"
  THEN ~last.accepted
  ELSE ~last.auth.ok /\ last.auth.error.name = "MalformedTokenError" /\ last.auth.error.code = 401

\* the last call let its token pass the structural checks
Passed ==
  IF last.op = "shouldAuthenticate"
  THEN last.accepted
  ELSE last.auth.ok \/ last.auth.error.name = "UnauthorizedError"

\* the header kid is the key id the issuer names under the base
KidMatches(token, base) ==
  NamedKid(token, base) # <<>> /\ token.header.kid = NamedKid(token, base)

\* C15: a decodable token whose ver is not 'japikey-v' followed by one to
\* three digits that spell a number up to 1 is turned down; a token whose ver
\* is such a string, and whose issuer and kid are in order, passes.
C15_VersionGate ==
  CheckedDecodable =>
    IF Get(last.token.payload, "ver") \in SupportedVersions
    THEN KidMatches(last.token, last.options.baseIssuer) => Passed
    ELSE TurnedDown

\* C15 witness: a token of version 'japikey-v001' passed, in a state that
\* follows a key's issuance
C15_Witness ==
  /\ CheckedDecodable
  /\ Get(last.token.payload, "ver") = Str(<<"japikey-v", "0", "0", "1">>)
  /\ Passed

\* C16: a decodable token passes only if its iss is the base issuer's string
\* form, with a '/' appended when it has none at its end, followed by exactly
\* one UUID; every other iss is turned down.
C16_IssuerAllowList ==
  CheckedDecodable =>
    /\ Passed => NamedKid(last.token, last.options.baseIssuer) # <<>>
    /\ NamedKid(last.token, last.options.baseIssuer) = <<>> => TurnedDown

\* C16 witness: an iss under a sibling path that starts with the base
\* issuer's string was turned down
C16_Witness ==
  /\ CheckedDecodable
  /\ ~EndsWith(toString(last.options.baseIssuer), <<"/">>)
  /\ Get(last.token.payload, "iss") =
       Str(toString(last.options.baseIssuer) \o last.token.header.kid)
  /\ TurnedDown

\* C17: a shouldAuthenticate call never raises; it yields true exactly when
\* the token is decodable and its issuer, kid and version are in order.
C17_SniffNeverRaises ==
  last.op = "shouldAuthenticate" =>
    /\ ~last.raised
    /\ last.accepted = ~StructurallyBad(last.token, last.options.baseIssuer)

\* C17 witness: a string that is not a token was answered with false
C17_Witness ==
  /\ last.op = "shouldAuthenticate"
  /\ ~last.token.decodable
  /\ ~last.raised
  /\ ~last.accepted

(***************************************************************************)
(* The verification step of authenticate (checked under SpecVerify)         *)
(***************************************************************************)
\* C18: whatever verifyOptions the caller gives, those that name other
\* algorithms included, authenticate accepts RS256 tokens only, and applies
\* the caller's audience check as well: with a key at hand, a well-formed
\* token is accepted exactly when its alg is RS256, its signature verifies
\* and its registered claims, the caller's audience among them, are valid.
C18_AlgorithmsAreRS256 ==
  (last.op = "authenticate" /\ ~StructurallyBad(last.token, last.options.baseIssuer)) =>
    /\ last.auth.ok =>
         /\ last.token.header.alg = "RS256"
         /\ last.options.verifyOptions.audience # <<>> =>
              Get(last.token.payload, "aud") = Str(last.options.verifyOptions.audience)
    /\ last.options.getJWKS.kind = "local" =>
         last.auth.ok = (/\ last.token.header.alg = "RS256"
                         /\ signatureValid(last.token, last.options.getJWKS.jwk)
                         /\ claimsValid(last.token.payload, last.options.verifyOptions,
                                        last.clock))

\* C18 witness: the caller named HS256, the token is an HS256 token whose
\* signature the resolved key verifies, and authenticate refused it
C18_Witness ==
  /\ last.op = "authenticate"
  /\ ~StructurallyBad(last.token, last.options.baseIssuer)
  /\ last.options.verifyOptions.algorithms = {"HS256"}
  /\ last.token.header.alg = "HS256"
  /\ last.options.getJWKS.kind = "local"
  /\ signatureValid(last.token, last.options.getJWKS.jwk)
  /\ ~last.auth.ok
  /\ last.auth.error.name = "UnauthorizedError"

(***************************************************************************)
(* What a client sees of an Unauthorized failure (checked under SpecVerify) *)
(***************************************************************************)
\* the causes that are a wrong signature, or a key that is unknown or revoked
KeyCauses == {"JWSSignatureVerificationFailed", "JOSEError", "JWKSNoMatchingKey"}

\* the last request presented a well-formed token that could not be verified
\* for one of KeyCauses
RefusedForKey ==
  /\ last.op = "authenticateApiKey"
  /\ ~StructurallyBad(last.token, last.options.baseIssuer)
  /\ ~last.auth.ok
  /\ last.auth.cause \in KeyCauses

\* the runs of the middleware, in the same state and mode as the last
\* request, that also end in a failure for one of KeyCauses
OtherRefusals ==
  { r \in { authenticateApiKey("bearer", t, o, last.production, now, MakeEnv(cfg.baseIssuer, driver, db)) :
              t \in {issued[Len(issued)].jwt} \cup VerifiableForgeries(issued[Len(issued)].jwt),
              o \in ExpressOptions(issued[Len(issued)]) } :
      ~r.auth.ok /\ r.auth.cause \in KeyCauses }

\* C19: a request whose well-formed token fails for a wrong signature and
\* one whose token fails for an unknown or revoked key get the same error
\* from authenticate and the same response (status, kind, message, body)
\* from the middleware.
C19_SameResponseWhateverCause ==
  (RefusedForKey /\ issued # <<>>) =>
    \A r \in OtherRefusals :
      /\ r.auth.error = last.auth.error
      /\ r.http = last.http

(***************************************************************************)
(* Where the private key goes (checked under Spec)                          *)
(***************************************************************************)
\* the members of a JWK that make it a private key are absent
PublicJWK(jwk) == jwk.d = NoPrivate

\* C20: whether createApiKey returns or throws, what it hands back holds no
\* private key: the returned jwk is the public key under the new kid, the
\* error is a kind, a code and a message; no key the callers keep holds one;
\* and every stored row is made of kid, user_id, revoked, the public JWK and
\* the caller's metadata, with neither a private key nor the token in it.
C20_PrivateKeyIsDiscarded ==
  /\ last.op \in {"createApiKey", "apiKeyRequest"} =>
       /\ PublicJWK(last.create.jwk)
       /\ DOMAIN last.create = {"ok", "error", "jwk", "jwt", "kid", "keyPairGenerated"}
       /\ DOMAIN last.create.error = {"name", "code", "errorType", "message"}
       /\ last.create.ok => last.create.jwk = [kty |-> "RSA", n |-> last.create.jwt.sig.key,
                                               d |-> NoPrivate, kid |-> last.create.kid]
  /\ \A i \in 1..Len(issued) : PublicJWK(issued[i].jwk)
  /\ \A i \in 1..Len(db) :
       /\ DOMAIN db[i] = {"kid", "user_id", "revoked", "jwk", "metadata"}
       /\ PublicJWK(parseJSON(db[i].jwk))
       /\ DOMAIN parseJSON(db[i].jwk) = {"kty", "n", "d", "kid"}
       /\ parseJSON(db[i].metadata) = NoClaims
  /\ (last.op = "apiKeyRequest" /\ last.create.ok /\ last.response.status = 200) =>
       \E i \in 1..Len(db) :
         db[i] = toSqlite(ApiKeyRow(last.create.kid, last.request.user, FALSE,
                                    last.create.jwk, last.request.data.databaseMetadata))

\* C20 witness: a POST issued a key from a generated pair and stored its row
C20_Witness ==
  /\ last.op = "apiKeyRequest"
  /\ last.request.method = "POST"
  /\ last.create.ok
  /\ last.create.keyPairGenerated
  /\ last.response.status = 200
  /\ \E i \in 1..Len(db) : db[i].kid = last.create.kid /\ PublicJWK(parseJSON(db[i].jwk))

(***************************************************************************)
(* Owner isolation in the API-key routes (checked under Spec)               *)
(***************************************************************************)
\* the step is a request for /:id, with method m, on a stored key id
OnStoredKey(m) ==
  /\ last'.op = "apiKeyRequest"
  /\ last'.request.method = m
  /\ matchPath(last'.request, m, "/:id")
  /\ driver = "ready"
  /\ RowsOf(Slice(last'.request.path, 1)) # {}

\* the stored records of user, as the routes answer them, in stored order
RecordsOf(table, user) ==
  LET rows == SelectSeq(table, LAMBDA r : r.user_id = user)
  IN  [i \in 1..Len(rows) |-> fromSqlite(rows[i])]

\* C21: GET /:id and DELETE /:id on a record of another user answer 404 and
\* leave every record as it was; GET /my answers exactly the user's records,
\* revoked ones included; GET /:id by the owner answers the record, revoked
\* or not.
C21_OwnerIsolation ==
  [][/\ \A m \in {"GET", "DELETE"} :
          OnStoredKey(m) =>
            \A r \in RowsOf(Slice(last'.request.path, 1)) :
              IF db[r].user_id # last'.request.user
              THEN /\ last'.response.status = 404
                   /\ last'.response.rows = <<>>
                   /\ db' = db
              ELSE m = "GET" =>
                     /\ last'.response.status = 200
                     /\ last'.response.rows = <<fromSqlite(db[r])>>
                     /\ db' = db
     /\ (/\ last'.op = "apiKeyRequest"
         /\ matchPath(last'.request, "GET", "/my")
         /\ driver = "ready") =>
          /\ last'.response.status = 200
          /\ last'.response.rows = RecordsOf(db, last'.request.user)
          /\ db' = db]_vars

\* C21 witness: a DELETE by another user on a live record was answered 404
\* and the record is still live
C21_Witness ==
  /\ last.op = "apiKeyRequest"
  /\ last.request.method = "DELETE"
  /\ last.response.status = 404
  /\ \E r \in RowsOf(Slice(last.request.path, 1)) :
       db[r].user_id # last.request.user /\ db[r].revoked = 0

(***************************************************************************)
(* SpecDriver: one SqliteDriver through its lifecycle                       *)
(***************************************************************************)
\* the key ids the driver is given records of
DriverKeys == {1, 2}

\* the records given to insertApiKey: for each key id, either user, live or
\* revoked, with the public JWK of any key under that kid
DriverRows ==
  { ApiKeyRow(<<KidSeq[i]>>, u, r, generateJWK(generateKeyPair(n).publicKey, <<KidSeq[i]>>),
              NoClaims) :
      i \in DriverKeys, u \in Users, r \in BOOLEAN, n \in DriverKeys \cup {AttackerKey} }

InitDriver ==
  /\ cfg = MakeConfig(BaseSub, Audience)
  /\ now = 0
  /\ issued = <<>>
  /\ driver = "new"
  /\ db = <<>>
  /\ last = Idle
  /\ calls = <<>>
  /\ drawn = 0

NextDriver ==
  \/ EnsureTable
  \/ Close
  \/ \E apiKey \in DriverRows : InsertApiKey(apiKey)
  \/ \E i \in DriverKeys : GetApiKey(<<KidSeq[i]>>)
  \/ \E u \in Users : FindApiKeys(u, 0 - 1, 0)
  \/ \E u \in Users, i \in DriverKeys : RevokeApiKey([user_id |-> u, kid |-> <<KidSeq[i]>>])

SpecDriver == InitDriver /\ [][NextDriver]_vars

\* the step is a call of one of the four record operations
RecordOperation ==
  last'.op \in {"insertApiKey", "getApiKey", "findApiKeys", "revokeApiKey"}

\* the step's call failed with the named error and changed nothing
FailsWith(name) ==
  /\ ~last'.dbResult.ok
  /\ last'.dbResult.error.name = name
  /\ last'.dbResult.error.code = 500
  /\ db' = db
  /\ driver' = driver

UserErrors ==
  {NoError, InvalidInputError("Missing session"), MalformedTokenError(""),
   UnauthorizedError("Not signed in"), NotFoundError("No such user"),
   UnknownError("Identity service failed"), NativeError("getUserId failed")}

\* what parseCreateApiKeyRequest rejects with
DataErrors == {NoError, InvalidInputError("Invalid body"), NativeError("Unexpected token")}

\* with getUserId rejecting with err
WithUserError(request, err) == [request EXCEPT !.userError = err]

\* with parseCreateApiKeyRequest rejecting with err
WithDataError(request, err) == [request EXCEPT !.dataError = err]

\* the users of the requests of SpecRouter
RouterUser == <<"u1">>

\* the requests: the four routes, an id that is no UUID, and no route
RouterRequests ==
  LET shapes(u) ==
        {WithDataError(MakeRequest("POST", <<>>, u,
                                   MakeCreateData(SysExpiresAt, SysClaims, NoClaims)), d) :
           d \in DataErrors}
          \cup {MakeRequest(m, <<"/">> \o k, u, NoData) :
                  m \in {"GET", "DELETE"}, k \in IssuedKids \cup {<<"my">>, <<"not-a-uuid">>}}
          \cup {MakeRequest("PUT", <<>>, u, NoData)}
  IN  UNION {shapes(u) : u \in Users}
        \cup {WithUserError(r, e) : r \in shapes(RouterUser), e \in UserErrors}

InitRouter ==
  /\ cfg = MakeConfig(BaseSub, Audience)
  /\ now = 0
  /\ issued = <<>>
  /\ driver = "new"
  /\ db = <<>>
  /\ last = Idle
  /\ calls = <<>>
  /\ drawn = 0

NextRouter ==
  \/ EnsureTable
  \/ Close
  \/ \E request \in RouterRequests, fault \in Faults :
       /\ (fault # "none") => (matchPath(request, "POST", "") /\ request.dataError = NoError)
       /\ ApiKeyRequest(request, fault)

SpecRouter == InitRouter /\ [][NextRouter]_vars

\* what the wrapped function does with the request of the step
Handled ==
  route(last'.request, [issuer |-> cfg.baseIssuer, aud |-> cfg.aud], Len(issued) + 1, now,
        last'.fault, driver, db)

\* the status code of each kind of error
CodeOf(errorType) ==
  CASE errorType = "invalid_input" -> 400
    [] errorType = "malformed_token" -> 401
    [] errorType = "unauthorized" -> 403
    [] errorType = "not_found" -> 404
    [] errorType \in {"incorrect_usage", "signing_error", "database_error", "unknown"} -> 500
    [] OTHER -> 0

\* C24: a JapikeyError thrown while a request is handled, one thrown by
\* getUserId included, becomes a response whose status is the error's code
\* (400, 401, 403, 404 or 500 according to its kind) and whose body carries
\* the error's type and message; any other exception is not converted and
\* propagates unchanged.
C24_ErrorKindDecidesOutcome ==
  [][(last'.op = "apiKeyRequest") =>
       /\ (last'.asked /\ last'.request.userError # NoError) =>
            Handled.thrown = last'.request.userError
       /\ (Handled.thrown # NoError /\ IsJapikeyError(Handled.thrown)) =>
            /\ last'.thrown = NoError
            /\ last'.response.status = Handled.thrown.code
            /\ last'.response.status = CodeOf(Handled.thrown.errorType)
            /\ last'.response.status \in {400, 401, 403, 404, 500}
            /\ last'.response.errorType = Handled.thrown.errorType
            /\ last'.response.message = Handled.thrown.message
       /\ (Handled.thrown # NoError /\ ~IsJapikeyError(Handled.thrown)) =>
            /\ last'.thrown = Handled.thrown
            /\ last'.response = NoResponse
       /\ (Handled.thrown = NoError) =>
            /\ last'.thrown = NoError
            /\ last'.response.status = 200]_vars

\* C24 witness: getUserId rejected a create request with UnauthorizedError
\* and the client got 403 with the error's type and message
C24_Witness ==
  /\ last.op = "apiKeyRequest"
  /\ last.request.method = "POST"
  /\ last.asked
  /\ last.request.userError = UnauthorizedError("Not signed in")
  /\ last.response.status = 403
  /\ last.response.errorType = "unauthorized"
  /\ last.response.message = "Not signed in"

\* C24, the other half: an exception of getUserId that is no JapikeyError
\* came out of the router as it was
C24_PropagatedWitness ==
  /\ last.op = "apiKeyRequest"
  /\ last.asked
  /\ last.thrown = NativeError("getUserId failed")

\* C28: when getUserId rejects, no key pair is generated and no record is
\* inserted or revoked, and a JapikeyError it rejected with decides the
\* status, on every route and whatever else the request holds.
C28_RejectedUserChangesNothing ==
  [][(/\ last'.op = "apiKeyRequest"
      /\ last'.asked
      /\ last'.request.userError # NoError) =>
        (/\ db' = db
         /\ issued' = issued
         /\ ~last'.create.keyPairGenerated
         /\ ~last'.create.ok
         /\ last'.response.api_key = NoToken
         /\ IsJapikeyError(last'.request.userError) =>
              last'.response.status = last'.request.userError.code)]_vars

\* C28 witness: a revoke request for a live record of the named user, with
\* getUserId rejecting with UnauthorizedError, was answered 403 and the
\* record is still live
C28_Witness ==
  /\ last.op = "apiKeyRequest"
  /\ last.request.method = "DELETE"
  /\ last.asked
  /\ last.request.userError = UnauthorizedError("Not signed in")
  /\ last.response.status = 403
  /\ driver = "ready"
  /\ \E i \in RowsOf(Slice(last.request.path, 1)) :
       db[i].user_id = last.request.user /\ db[i].revoked = 0

\* the step is a request to the create route
CreateStep ==
  last'.op = "apiKeyRequest" /\ matchPath(last'.request, "POST", "")

\* the record the create route stores for the key of the step
CreatedRecord ==
  toSqlite(ApiKeyRow(last'.create.kid, last'.request.user, FALSE, last'.create.jwk,
                     last'.request.data.databaseMetadata))

\* C29: the create route answers with api_key and kid only when the key's
\* record (kid, owner, revoked = false, public JWK, metadata) has been
\* inserted; when createApiKey or insertApiKey fails the client gets the
\* error and no token, and no record is left behind.
C29_TokenOnlyAfterInsert ==
  [][CreateStep =>
       IF last'.response.status = 200
       THEN /\ last'.create.ok
            /\ last'.response.api_key = last'.create.jwt
            /\ last'.response.kid = last'.create.kid
            /\ RowsOf(last'.create.kid) = {}
            /\ db' = Append(db, CreatedRecord)
            /\ PublicJWK(last'.create.jwk)
       ELSE /\ last'.response.api_key = NoToken
            /\ last'.response.kid = <<>>
            /\ db' = db
            /\ issued' = issued
            /\ \/ last'.thrown # NoError
               \/ last'.response.status \in {400, 401, 403, 404, 500}]_vars

\* C29 witness: createApiKey produced a key, insertApiKey failed, and the
\* client got the error without the token
C29_Witness ==
  /\ last.op = "apiKeyRequest"
  /\ matchPath(last.request, "POST", "")
  /\ last.create.ok
  /\ last.response.status = 500
  /\ last.response.api_key = NoToken
  /\ RowsOf(last.create.kid) = {}

\* C29, the good case: a create request answered with the token of a key
\* whose record is stored
C29_StoredWitness ==
  /\ last.op = "apiKeyRequest"
  /\ last.response.status = 200
  /\ last.response.api_key = last.create.jwt
  /\ \E i \in RowsOf(last.response.kid) : db[i].revoked = 0

\* C25: when the Authorization header is absent, is no Bearer credential, or
\* carries a token shouldAuthenticate rejects, the middleware passes the
\* request on once, with request.user unset and no error; otherwise it runs
\* authenticate and either sets request.user = {type: 'api_key', claims,
\* id: claims.sub} and passes on, or answers with the typed error.
C25_PassesOnWhatIsNoApiKey ==
  (last.op = "authenticateApiKey") =>
    IF last.scheme # "bearer" \/ ~shouldAuthenticate(last.token, last.options.baseIssuer)
    THEN /\ last.nextCalls = 1
         /\ last.user = NoUser
         /\ ~last.http.sent
         /\ last.auth.error = NoError
         /\ ~last.auth.resolverCalled
    ELSE \/ /\ last.auth.ok
            /\ last.nextCalls = 1
            /\ last.user = [type |-> "api_key", claims |-> last.auth.payload,
                            id |-> Get(last.auth.payload, "sub")]
         \/ /\ ~last.auth.ok
            /\ last.nextCalls = 0
            /\ last.user = NoUser
            /\ last.auth.error.code # 0 => /\ last.http.sent
                                           /\ last.http.status = last.auth.error.code

\* C25, what the middleware does: a request without a bearer token is passed
\* on once with request.user unset; for every bearer token authenticate
\* runs, and the request is passed on with request.user set when it
\* succeeds and answered with the typed error when it fails
C25_AuthenticatesEveryBearerToken ==
  (last.op = "authenticateApiKey") =>
    IF last.scheme # "bearer"
    THEN last.nextCalls = 1 /\ last.user = NoUser /\ ~last.http.sent
    ELSE \/ /\ last.auth.ok
            /\ last.nextCalls = 1
            /\ last.user.type = "api_key"
         \/ /\ ~last.auth.ok
            /\ last.nextCalls = 0
            /\ last.user = NoUser
            /\ last.auth.error.code # 0 => /\ last.http.sent
                                           /\ last.http.status = last.auth.error.code

\* a bearer token that is no API key was answered 401 instead of passed on
C25_Refused ==
  /\ last.op = "authenticateApiKey"
  /\ last.scheme = "bearer"
  /\ ~shouldAuthenticate(last.token, last.options.baseIssuer)
  /\ last.http.sent
  /\ last.http.status = 401
  /\ last.nextCalls = 0

\* authenticate turned the token down in its structural chain
FailsMalformed(auth) ==
  ~auth.ok /\ auth.error.name = "MalformedTokenError"

\* C27: for every token and base issuer, shouldAuthenticate yields true if
\* and only if authenticate does not fail with MalformedTokenError, that is,
\* authenticate reaches the resolver exactly for the tokens
\* shouldAuthenticate accepts.
C27_SniffAgreesWithVerify ==
  /\ (\/ last.op = "authenticate"
      \/ (last.op = "authenticateApiKey" /\ last.scheme = "bearer")) =>
       /\ shouldAuthenticate(last.token, last.options.baseIssuer) <=> ~FailsMalformed(last.auth)
       /\ shouldAuthenticate(last.token, last.options.baseIssuer) <=> last.auth.resolverCalled
  /\ (last.op = "shouldAuthenticate") =>
       \A getJWKS \in {MakeGetJWKS("remote", last.options.baseIssuer, NoJWK),
                       MakeGetJWKS("throws", last.options.baseIssuer, NoJWK)} :
         last.accepted <=>
           ~FailsMalformed(authenticate(last.token,
                                        MakeAuthenticateOptions(last.options.baseIssuer, getJWKS,
                                                                NoVerifyOptions),
                                        now, MakeEnv(cfg.baseIssuer, driver, db)))

\* C27 witness: a token shouldAuthenticate accepts reached the resolver and
\* was refused there, with UnauthorizedError
C27_Witness ==
  /\ last.op = "authenticate"
  /\ shouldAuthenticate(last.token, last.options.baseIssuer)
  /\ last.auth.resolverCalled
  /\ ~last.auth.ok
  /\ last.auth.error.name = "UnauthorizedError"

\* C27, the other side: a decodable token shouldAuthenticate rejects failed
\* in authenticate with MalformedTokenError before the resolver was called
C27_MalformedWitness ==
  /\ last.op = "authenticate"
  /\ last.token.decodable
  /\ ~shouldAuthenticate(last.token, last.options.baseIssuer)
  /\ FailsMalformed(last.auth)
  /\ ~last.auth.resolverCalled

(***************************************************************************)
(* SpecJwks: the JWKS route and isJWKSPath over request URLs                *)
(***************************************************************************)
\* what follows the key id in the URL of a key set
WellKnownTail == <<"/", ".well-known", "/", "jwks.json">>

\* the key ids of the request URLs: one that is stored, one that is not
JwksKids == {KidSeq[1], ForeignUuid}

\* the request URLs for a base issuer: the documented URL of a key id, the
\* key id glued onto the base, a doubled separator, a trailing slash, an
\* id that is no UUID, an extra segment, a missing or misspelt directory,
\* another file name, no key id, another host, the base itself
JwksUrls(base) ==
  LET s == toString(base)
      p == PrefixOf(base)
  IN  UNION { { p \o <<k>> \o WellKnownTail,
                s \o <<k>> \o WellKnownTail,
                p \o <<"/", k>> \o WellKnownTail,
                p \o <<k>> \o WellKnownTail \o <<"/">>,
                p \o <<"extra", "/", k>> \o WellKnownTail,
                p \o <<k, "/", "jwks.json">>,
                p \o <<k, "/", ".well-known", "/", "keys.json">>,
                p \o <<k, "/", ".well_known", "/", "jwks.json">>,
                PrefixOf(OtherBase) \o <<k>> \o WellKnownTail } : k \in JwksKids }
        \cup { p \o <<"not-a-uuid">> \o WellKnownTail, p \o WellKnownTail, s, p }

\* the record of the stored key
JwksRow(revoked) ==
  ApiKeyRow(<<KidSeq[1]>>, VerifyUser, revoked,
            generateJWK(generateKeyPair(1).publicKey, <<KidSeq[1]>>), NoClaims)

\* the base issuers of SpecJwks: an origin, a path, a path with a trailing
\* slash, an origin with a port
JwksBases == {BasePlain, BaseSub, BaseSubSlash, BaseUserPort}

InitJwks ==
  /\ cfg \in {MakeConfig(b, Audience) : b \in JwksBases}
  /\ now = 0
  /\ issued = <<>>
  /\ driver = "new"
  /\ db = <<>>
  /\ last = Idle
  /\ calls = <<>>
  /\ drawn = 0

NextJwks ==
  \/ EnsureTable
  \/ \E revoked \in BOOLEAN : InsertApiKey(JwksRow(revoked))
  \/ \E url \in JwksUrls(cfg.baseIssuer) : JWKSRequest(url)
  \/ \E url \in JwksUrls(cfg.baseIssuer) : IsJWKSPath(url)

SpecJwks == InitJwks /\ [][NextJwks]_vars

\* the URL is the base issuer, one '/' separator, one UUID and
\* '/.well-known/jwks.json', and nothing else; the separator is the '/' the
\* base issuer ends with, when it ends with one, or one '/' after it
ExactJwksUrl(url, base) ==
  \E k \in UUIDs :
    \/ url = PrefixOf(base) \o <<k>> \o WellKnownTail
    \/ url = toString(base) \o <<"/", k>> \o WellKnownTail

\* the router answered 404 'Invalid JWKS request'
InvalidJwksRequest(response) ==
  response.status = 404 /\ response.message = "Invalid JWKS request"

\* C30: isJWKSPath never raises and is true if and only if the URL is the
\* base issuer URL, one '/' separator, one UUID and '/.well-known/jwks.json'
\* with nothing before, between or after; createJWKSRouter answers 404
\* 'Invalid JWKS request' for exactly the URLs for which isJWKSPath is false.
C30_ExactJwksPath ==
  /\ (last.op = "isJWKSPath") =>
       /\ ~last.raised
       /\ last.accepted <=> ExactJwksUrl(last.url, cfg.baseIssuer)
  /\ (last.op = "jwksRequest") =>
       (InvalidJwksRequest(last.response) <=> ~isJWKSPath(last.url, cfg.baseIssuer).value)

\* C30, the parts that hold: isJWKSPath never raises, is true for the
\* documented URL of every UUID and false for a URL that does not start with
\* the base issuer or does not end in one UUID and '/.well-known/jwks.json';
\* the router answers 404 'Invalid JWKS request' exactly when it is false
C30_RouterAgreesWithIsJWKSPath ==
  /\ (last.op = "isJWKSPath") =>
       /\ ~last.raised
       /\ ExactJwksUrl(last.url, cfg.baseIssuer) => last.accepted
       /\ last.accepted =>
            /\ StartsWith(last.url, toString(cfg.baseIssuer))
            /\ \E k \in UUIDs :
                 EndsWith(last.url, <<k>> \o WellKnownTail)
  /\ (last.op = "jwksRequest") =>
       (InvalidJwksRequest(last.response) <=> ~isJWKSPath(last.url, cfg.baseIssuer).value)

\* a key id glued onto the last path segment of the base issuer was taken
\* for a JWKS path
C30_Glued ==
  /\ last.op = "isJWKSPath"
  /\ last.accepted
  /\ ~EndsWith(toString(cfg.baseIssuer), <<"/">>)
  /\ \E k \in UUIDs : last.url = toString(cfg.baseIssuer) \o <<k>> \o WellKnownTail

\* the router served the stored key for such a URL
C30_GluedServed ==
  /\ last.op = "jwksRequest"
  /\ last.response.status = 200
  /\ ~ExactJwksUrl(last.url, cfg.baseIssuer)

(***************************************************************************)
(* SpecCalls: createApiKey and authenticate calls in flight together.       *)
(* calls holds the local variables of every call started, with pc the       *)
(* await it is suspended at; drawn counts the UUIDs uuidv7() has returned.  *)
(***************************************************************************)
MaxCalls == 3

\* uuidv7(): the next UUID of the generator
uuidv7(count) == <<KidSeq[count + 1]>>

Call(op, pc) ==
  [op |-> op, pc |-> pc, claims |-> NoClaims, options |-> MakeOptions(<<>>, NullURL, <<>>, 0),
   n |-> 0, kid |-> <<>>, exp |-> 0, iss |-> <<>>, key |-> 0, jwk |-> NoJWK, jwt |-> NoToken,
   error |-> NoError, token |-> NoToken, authOptions |-> NoAuthOptions, auth |-> NoAuth]

\* a variant whose key id comes from the clock instead of the generator
beginCreate_KidFromClock(claims, options, count, clock) ==
  LET e == getExpiresAt(options.expiresAt)
      s == getSub(options)
      c == [Call("createApiKey", "generateKeyPair") EXCEPT
              !.claims = claims, !.options = options, !.n = count + 1,
              !.kid = uuidv7(clock), !.exp = e.exp,
              !.iss = toString(appendPathToUrl(options.iss, uuidv7(clock)))]
  IN  IF ~e.ok THEN [c EXCEPT !.pc = "done", !.error = e.error]
      ELSE IF ~s.ok THEN [c EXCEPT !.pc = "done", !.error = s.error]
      ELSE c

\* createApiKey up to its first await: kid, exp, iss and sub are computed,
\* then jose.generateKeyPair is awaited
beginCreate(claims, options, count, clock) ==
  LET e == getExpiresAt(options.expiresAt)
      s == getSub(options)
      c == [Call("createApiKey", "generateKeyPair") EXCEPT
              !.claims = claims, !.options = options, !.n = count + 1,
              !.kid = uuidv7(count), !.exp = e.exp,
              !.iss = toString(appendPathToUrl(options.iss, uuidv7(count)))]
  IN  IF ~e.ok THEN [c EXCEPT !.pc = "done", !.error = e.error]
      ELSE IF ~s.ok THEN [c EXCEPT !.pc = "done", !.error = s.error]
      ELSE c

\* jose.generateKeyPair settles: the pair is the call's own, named after the
\* call; then jose.exportJWK is awaited
generateKeyPairSettles(call) ==
  [call EXCEPT !.key = call.n, !.pc = "exportJWK"]

\* jose.exportJWK settles: jwk.kid = kid; then SignJWT.sign is awaited
exportJWKSettles(call) ==
  [call EXCEPT !.jwk = generateJWK(generateKeyPair(call.key).publicKey, call.kid),
               !.pc = "sign"]

\* sign settles: createApiKey returns { jwk, jwt, kid }
signSettles(call, clock) ==
  [call EXCEPT !.jwt = signJWT(signedClaims(call.claims, call.options.sub, call.iss,
                                            call.options.aud, call.exp),
                               generateKeyPair(call.key).privateKey, ALG, call.kid, clock),
               !.pc = "done"]

\* authenticate up to its await of jose.jwtVerify: a token the structural
\* checks turn down is rejected at once
beginAuthenticate(token, options, clock, env) ==
  LET c == [Call("authenticate", "jwtVerify") EXCEPT !.token = token, !.authOptions = options]
      settle(auth) == IF FailsMalformed(auth) THEN [c EXCEPT !.pc = "done", !.auth = auth] ELSE c
  IN  settle(authenticate(token, options, clock, env))

\* jose.jwtVerify settles: authenticate returns the payload or throws
jwtVerifySettles(call, clock, env) ==
  [call EXCEPT !.auth = authenticate(call.token, call.authOptions, clock, env), !.pc = "done"]

\* the calls of createApiKey that returned
Returned == {i \in 1..Len(calls) : calls[i].op = "createApiKey" /\ calls[i].pc = "done"
                                   /\ calls[i].error = NoError}

\* what callers pass to createApiKey: either user, or no subject
CallOptions ==
  {MakeOptions(u, cfg.baseIssuer, cfg.aud, SysExpiresAt) : u \in {VerifyUser, <<>>}}

BeginCreate(claims, options) ==
  /\ Len(calls) < MaxCalls
  /\ calls' = Append(calls, beginCreate(claims, options, drawn, now))
  /\ drawn' = drawn + 1
  /\ UNCHANGED <<cfg, now, issued, driver, db, last>>

GenerateKeyPairSettles(i) ==
  /\ calls[i].pc = "generateKeyPair"
  /\ calls' = [calls EXCEPT ![i] = generateKeyPairSettles(calls[i])]
  /\ UNCHANGED <<cfg, now, issued, driver, db, last, drawn>>

ExportJWKSettles(i) ==
  /\ calls[i].pc = "exportJWK"
  /\ calls' = [calls EXCEPT ![i] = exportJWKSettles(calls[i])]
  /\ UNCHANGED <<cfg, now, issued, driver, db, last, drawn>>

SignSettles(i) ==
  /\ calls[i].pc = "sign"
  /\ calls' = [calls EXCEPT ![i] = signSettles(calls[i], now)]
  /\ UNCHANGED <<cfg, now, issued, driver, db, last, drawn>>

\* authenticate(token, options) for the token of a call that returned, with
\* a resolver that yields the public key of a call that returned
BeginAuthenticate(i, j) ==
  /\ Len(calls) < MaxCalls
  /\ calls' = Append(calls,
                     beginAuthenticate(calls[i].jwt,
                                       MakeAuthenticateOptions(cfg.baseIssuer,
                                         MakeGetJWKS("local", cfg.baseIssuer, calls[j].jwk),
                                         NoVerifyOptions),
                                       now, MakeEnv(cfg.baseIssuer, driver, db)))
  /\ UNCHANGED <<cfg, now, issued, driver, db, last, drawn>>

JwtVerifySettles(i) ==
  /\ calls[i].pc = "jwtVerify"
  /\ calls' = [calls EXCEPT ![i] = jwtVerifySettles(calls[i], now,
                                                    MakeEnv(cfg.baseIssuer, driver, db))]
  /\ UNCHANGED <<cfg, now, issued, driver, db, last, drawn>>

InitCalls ==
  /\ cfg = MakeConfig(BaseSub, Audience)
  /\ now = 0
  /\ issued = <<>>
  /\ driver = "new"
  /\ db = <<>>
  /\ last = Idle
  /\ calls = <<>>
  /\ drawn = 0

NextCalls ==
  \/ \E options \in CallOptions : BeginCreate(SysClaims, options)
  \/ \E i \in 1..Len(calls) : GenerateKeyPairSettles(i)
  \/ \E i \in 1..Len(calls) : ExportJWKSettles(i)
  \/ \E i \in 1..Len(calls) : SignSettles(i)
  \/ \E i \in Returned, j \in Returned : BeginAuthenticate(i, j)
  \/ \E i \in 1..Len(calls) : JwtVerifySettles(i)

SpecCalls == InitCalls /\ [][NextCalls]_vars

\* the calls of createApiKey started
Creates == {i \in 1..Len(calls) : calls[i].op = "createApiKey"}

\* what the call returns or throws when it runs with no other call in flight
Alone(call) ==
  createApiKey(call.claims, call.options, call.n, now, "none")

C26_CrossWitness ==
  \E k \in 1..Len(calls), c \in Returned :
    /\ calls[k].op = "authenticate" /\ calls[k].pc = "done" /\ ~calls[k].auth.ok
    /\ calls[k].token = calls[c].jwt
    /\ calls[k].authOptions.getJWKS.jwk # calls[c].jwk

====
